---- MODULE Spec2Model ----
(***************************************************************************)
(* Wire-format codec and validation layer of the Orchard / issuance        *)
(* bundles of librustzcash (zcash_primitives::transaction::components).    *)
(*                                                                         *)
(* A byte stream is a sequence over 0..255.  A reader is an operator of    *)
(* the stream s and the cursor p (the number of bytes consumed so far); it *)
(* returns an io::Result together with the cursor after the call:          *)
(*   [ok |-> TRUE,  val |-> v, pos |-> p']                                 *)
(*   [ok |-> FALSE, err |-> [kind |-> k, msg |-> m], pos |-> p']           *)
(* A writer is an operator of the in-memory value; it returns the bytes it *)
(* appends to the output.  Option<T> is None or Some(v).                   *)
(* 64-bit integers are kept as their 8 little-endian bytes.                *)
(***************************************************************************)
EXTENDS Integers, Sequences, FiniteSets, TLC

(***************************************************************************)
(* Bounds of the model                                                     *)
(***************************************************************************)
MaxActions == 2
MaxProofLen == 1
MaxBurn == 3
MaxBundleBurn == 2
MaxIssueActions == 2
MaxNotes == 1
MaxDescLen == 1
MaxGapLimit == 3

(***************************************************************************)
(* Program constants                                                       *)
(***************************************************************************)
FLAG_SPENDS_ENABLED == 1
FLAG_OUTPUTS_ENABLED == 2
\* !(FLAG_SPENDS_ENABLED | FLAG_OUTPUTS_ENABLED) as a u8
FLAGS_EXPECTED_UNSET == 255 - (FLAG_SPENDS_ENABLED + FLAG_OUTPUTS_ENABLED)

\* D::ENC_CIPHERTEXT_SIZE of the two note-encryption domains
ENC_CIPHERTEXT_SIZE(D) == IF D = "OrchardVanilla" THEN 580 ELSE 612

(***************************************************************************)
(* Results, options, bytes                                                 *)
(***************************************************************************)
None == [some |-> FALSE]
Some(v) == [some |-> TRUE, v |-> v]

Ok(v, p) == [ok |-> TRUE, val |-> v, pos |-> p]
Err(kind, msg, p) == [ok |-> FALSE, err |-> [kind |-> kind, msg |-> msg], pos |-> p]

Fill(n, b) == [i \in 1..n |-> b]

\* the 8 little-endian bytes of a small integer taken as an i64 / u64
\* (two's complement; \div rounds down and % is non-negative)
LE64(n) ==
  [i \in 1..8 |->
     IF i <= 3 THEN (n \div (256 ^ (i - 1))) % 256
     ELSE IF i = 4 THEN (n \div 16777216) % 256
     ELSE IF n < 0 THEN 255 ELSE 0]

I64IsZero(b) == b = Fill(8, 0)
I64IsNegative(b) == b[8] >= 128

\* bitwise and of two bytes
BitAnd(a, b) ==
  LET bit(x, i) == (x \div (2 ^ i)) % 2
      sum[i \in 0..8] ==
        IF i = 8 THEN 0 ELSE bit(a, i) * bit(b, i) * (2 ^ i) + sum[i + 1]
  IN sum[0]

\* the 4 little-endian bytes of a small u32
LE32(n) == [i \in 1..4 |-> (n \div (256 ^ (i - 1))) % 256]

(***************************************************************************)
(* std::io::Read::read_exact over the stream                               *)
(***************************************************************************)
read_exact(s, p, n) ==
  IF p + n <= Len(s)
  THEN Ok(SubSeq(s, p + 1, p + n), p + n)
  ELSE Err("UnexpectedEof", "failed to fill whole buffer", Len(s))

\* the ? operator: an error ends the enclosing call, a value goes on to K
Try(r, K(_)) == IF r.ok THEN K(r) ELSE r

read_u8(s, p) ==
  Try(read_exact(s, p, 1), LAMBDA r : Ok(r.val[1], r.pos))

(***************************************************************************)
(* zcash_encoding::CompactSize                                             *)
(***************************************************************************)
\* a count above MAX_SIZE = 0x02000000 is refused
CompactSize_write(n) ==
  IF n < 253 THEN <<n>>
  ELSE IF n <= 65535 THEN <<253, n % 256, n \div 256>>
  ELSE <<254>> \o LE32(n)

CompactSize_read_u16(s, p) ==
  Try(read_exact(s, p, 2), LAMBDA r :
    IF r.val[1] + 256 * r.val[2] < 253
    THEN Err("InvalidInput", "non-canonical CompactSize", r.pos)
    ELSE Ok(r.val[1] + 256 * r.val[2], r.pos))

CompactSize_read_u32(s, p) ==
  Try(read_exact(s, p, 4), LAMBDA r :
    IF r.val[3] = 0 /\ r.val[4] = 0
    THEN Err("InvalidInput", "non-canonical CompactSize", r.pos)
    ELSE IF r.val[4] > 2 \/ (r.val[4] = 2 /\ (r.val[1] + r.val[2] + r.val[3]) > 0)
    THEN Err("InvalidInput", "CompactSize too large", r.pos)
    ELSE Ok(r.val[1] + 256 * r.val[2] + 65536 * r.val[3] + 16777216 * r.val[4], r.pos))

\* a u64 form is canonical only from 2^32 up, which exceeds MAX_SIZE
CompactSize_read_u64(s, p) ==
  Try(read_exact(s, p, 8), LAMBDA r :
    IF r.val[5] + r.val[6] + r.val[7] + r.val[8] = 0
    THEN Err("InvalidInput", "non-canonical CompactSize", r.pos)
    ELSE Err("InvalidInput", "CompactSize too large", r.pos))

CompactSize_read(s, p) ==
  Try(read_u8(s, p), LAMBDA flag :
    IF flag.val < 253 THEN flag
    ELSE IF flag.val = 253 THEN CompactSize_read_u16(s, flag.pos)
    ELSE IF flag.val = 254 THEN CompactSize_read_u32(s, flag.pos)
    ELSE CompactSize_read_u64(s, flag.pos))

(***************************************************************************)
(* Values of the external crates (orchard, redpallas): a value of type ty  *)
(* is kept as its canonical bytes under the name of its type.  from_bytes  *)
(* accepts the canonical encodings only.                                   *)
(***************************************************************************)
Val(ty, b) == [ty |-> ty, bytes |-> b]

\* the canonical-decoding check of the curve library on a fixed-size field:
\* the all-zero encoding and encodings above the field modulus are rejected
IsCanonical(b) == b # Fill(Len(b), 0) /\ b[Len(b)] < 64

\* Flags::from_byte / Flags::to_byte
Flags_from_byte(b) ==
  IF BitAnd(b, FLAGS_EXPECTED_UNSET) # 0
  THEN None
  ELSE Some([spends_enabled |-> (b % 2) = FLAG_SPENDS_ENABLED,
             outputs_enabled |-> ((b \div 2) % 2) * 2 = FLAG_OUTPUTS_ENABLED])

Flags_to_byte(f) ==
  (IF f.spends_enabled THEN FLAG_SPENDS_ENABLED ELSE 0)
  + (IF f.outputs_enabled THEN FLAG_OUTPUTS_ENABLED ELSE 0)

\* Transaction::read_amount: an 8-byte signed little-endian integer
read_amount(s, p) ==
  Try(read_exact(s, p, 8), LAMBDA r : Ok(Val("Amount", r.val), r.pos))

to_i64_le_bytes(amount) == amount.bytes

(***************************************************************************)
(* Readers of the primitive fields (orchard.rs)                            *)
(***************************************************************************)
\* read_canonical taking the bytes as a value without the check
read_canonical_unchecked(ty, n, kind, msg, s, p) ==
  Try(read_exact(s, p, n), LAMBDA r : Ok(Val(ty, r.val), r.pos))

\* read n bytes and pass them to the canonical-decoding check of type ty
read_canonical(ty, n, kind, msg, s, p) ==
  Try(read_exact(s, p, n), LAMBDA r :
    IF ~IsCanonical(r.val) THEN Err(kind, msg, r.pos)
    ELSE Ok(Val(ty, r.val), r.pos))

read_value_commitment(s, p) ==
  read_canonical("ValueCommitment", 32, "InvalidInput",
                 "invalid Pallas point for value commitment", s, p)

read_nullifier(s, p) ==
  read_canonical("Nullifier", 32, "InvalidInput",
                 "invalid Pallas point for nullifier", s, p)

read_verification_key(s, p) ==
  read_canonical("VerificationKey", 32, "InvalidInput",
                 "invalid verification key", s, p)

read_cmx(s, p) ==
  read_canonical("ExtractedNoteCommitment", 32, "InvalidInput",
                 "invalid Pallas base for field cmx", s, p)

read_note_ciphertext(D, s, p) ==
  Try(read_exact(s, p, 32), LAMBDA epk :
  Try(read_exact(s, epk.pos, ENC_CIPHERTEXT_SIZE(D)), LAMBDA enc :
  Try(read_exact(s, enc.pos, 80), LAMBDA out :
    Ok([epk_bytes |-> epk.val,
        enc_ciphertext |-> enc.val,
        out_ciphertext |-> out.val], out.pos))))

\* Action::from_parts(nf_old, rk, cmx, encrypted_note, cv_net, authorization)
Action_from_parts(nf, rk, cmx, encrypted_note, cv_net, authorization) ==
  [nf |-> nf, rk |-> rk, cmx |-> cmx, encrypted_note |-> encrypted_note,
   cv_net |-> cv_net, authorization |-> authorization]

Unit == <<>>

read_action_without_auth(D, s, p) ==
  Try(read_value_commitment(s, p), LAMBDA cv_net :
  Try(read_nullifier(s, cv_net.pos), LAMBDA nf_old :
  Try(read_verification_key(s, nf_old.pos), LAMBDA rk :
  Try(read_cmx(s, rk.pos), LAMBDA cmx :
  Try(read_note_ciphertext(D, s, cmx.pos), LAMBDA encrypted_note :
    Ok(Action_from_parts(nf_old.val, rk.val, cmx.val,
                         encrypted_note.val, cv_net.val, Unit),
       encrypted_note.pos))))))

Flags_or_error(f, p) ==
  IF f.some THEN Ok(f.v, p) ELSE Err("InvalidInput", "invalid Orchard flags", p)

read_flags(s, p) ==
  Try(read_exact(s, p, 1), LAMBDA byte :
    Flags_or_error(Flags_from_byte(byte.val[1]), byte.pos))

read_anchor(s, p) ==
  read_canonical("Anchor", 32, "InvalidInput", "invalid Orchard anchor", s, p)

\* read_signature filling a short read with zero bytes
read_signature_padded(T, s, p) ==
  IF p + 64 <= Len(s)
  THEN Ok(Val(T, SubSeq(s, p + 1, p + 64)), p + 64)
  ELSE Ok(Val(T, [i \in 1..64 |-> IF p + i <= Len(s) THEN s[p + i] ELSE 0]), Len(s))

read_signature(T, s, p) ==
  Try(read_exact(s, p, 64), LAMBDA r : Ok(Val(T, r.val), r.pos))

read_note_value(s, p) ==
  Try(read_exact(s, p, 8), LAMBDA r : Ok(Val("NoteValue", r.val), r.pos))

(***************************************************************************)
(* Writers of the primitive fields (orchard.rs)                            *)
(***************************************************************************)
write_value_commitment(cv) == cv.bytes
write_nullifier(nf) == nf.bytes
write_verification_key(rk) == rk.bytes
write_cmx(cmx) == cmx.bytes

write_note_ciphertext(nc) ==
  nc.epk_bytes \o nc.enc_ciphertext \o nc.out_ciphertext

write_action_without_auth(act) ==
  write_value_commitment(act.cv_net)
  \o write_nullifier(act.nf)
  \o write_verification_key(act.rk)
  \o write_cmx(act.cmx)
  \o write_note_ciphertext(act.encrypted_note)

\* <[u8; 64]>::from(signature)
write_signature(sig) == sig.bytes

(***************************************************************************)
(* zcash_encoding::Vector and Array: a Vector is a CompactSize count       *)
(* followed by the items, an Array is the items alone.  The item reader    *)
(* or writer is chosen by name.                                            *)
(***************************************************************************)
RECURSIVE ReadItem(_, _, _)
RECURSIVE WriteItem(_, _)

RECURSIVE Array_read(_, _, _, _)
Array_read(item, s, p, n) ==
  IF n = 0 THEN Ok(<<>>, p)
  ELSE IF item = "u8" THEN read_exact(s, p, n)  \* n reads of one byte
  ELSE Try(ReadItem(item, s, p), LAMBDA h :
       Try(Array_read(item, s, h.pos, n - 1), LAMBDA t :
         Ok(<<h.val>> \o t.val, t.pos)))

Vector_read(item, s, p) ==
  Try(CompactSize_read(s, p), LAMBDA count :
    Array_read(item, s, count.pos, count.val))

RECURSIVE Array_write(_, _)
Array_write(item, xs) ==
  IF xs = <<>> THEN <<>>
  ELSE WriteItem(item, Head(xs)) \o Array_write(item, Tail(xs))

Vector_write(item, xs) == CompactSize_write(Len(xs)) \o Array_write(item, xs)

\* Vector::write_nonempty takes a NonEmpty<T>
Vector_write_nonempty(item, xs) == Vector_write(item, xs)

(***************************************************************************)
(* Orchard bundles (orchard.rs)                                            *)
(***************************************************************************)
\* Authorized::from_parts(proof, binding_signature)
Authorized_from_parts(proof, binding_signature) ==
  [proof |-> proof, binding_signature |-> binding_signature]

\* Bundle::from_parts(actions, flags, value_balance, burn, anchor, authorization)
Bundle_from_parts(actions, flags, value_balance, burn, anchor, authorization) ==
  [actions |-> actions, flags |-> flags, value_balance |-> value_balance,
   burn |-> burn, anchor |-> anchor, authorization |-> authorization]

\* actions_without_auth.map(|act| act.try_map(|_| read_signature(reader))):
\* one spend-auth signature per action, read in action order
read_spend_auths(actions_without_auth, s, p) ==
  Try(Array_read("spend_auth_sig", s, p, Len(actions_without_auth)), LAMBDA sigs :
    Ok([i \in 1..Len(actions_without_auth) |->
          [actions_without_auth[i] EXCEPT !.authorization = sigs.val[i]]],
       sigs.pos))

\* read_orchard_bundle reading the flags before it looks at the action count
read_orchard_bundle_flags_first(s, p) ==
  Try(Vector_read("action_vanilla", s, p), LAMBDA actions_without_auth :
  Try(read_flags(s, actions_without_auth.pos), LAMBDA flags :
    IF actions_without_auth.val = <<>> THEN Ok(None, flags.pos)
    ELSE Err("Other", "not modelled", flags.pos)))

read_orchard_bundle(s, p) ==
  Try(Vector_read("action_vanilla", s, p), LAMBDA actions_without_auth :
    IF actions_without_auth.val = <<>> THEN Ok(None, actions_without_auth.pos)
    ELSE
  Try(read_flags(s, actions_without_auth.pos), LAMBDA flags :
  Try(read_amount(s, flags.pos), LAMBDA value_balance :
  Try(read_anchor(s, value_balance.pos), LAMBDA anchor :
  Try(Vector_read("u8", s, anchor.pos), LAMBDA proof_bytes :
  Try(read_spend_auths(actions_without_auth.val, s, proof_bytes.pos), LAMBDA actions :
  Try(read_signature("Binding", s, actions.pos), LAMBDA binding_signature :
    Ok(Some(Bundle_from_parts(
              actions.val, flags.val, value_balance.val, <<>>, anchor.val,
              Authorized_from_parts(Val("Proof", proof_bytes.val),
                                    binding_signature.val))),
       binding_signature.pos))))))))

\* read_action_group looking at the timelimit after it read the signatures
read_action_group_late_timelimit(s, p) ==
  Try(Vector_read("action_zsa", s, p), LAMBDA actions_without_auth :
    IF actions_without_auth.val = <<>>
    THEN Err("InvalidInput", "An action group must contain at least one action",
             actions_without_auth.pos)
    ELSE
  Try(read_flags(s, actions_without_auth.pos), LAMBDA flags :
  Try(read_anchor(s, flags.pos), LAMBDA anchor :
  Try(Vector_read("u8", s, anchor.pos), LAMBDA proof_bytes :
  Try(read_exact(s, proof_bytes.pos, 4), LAMBDA timelimit :
  Try(read_spend_auths(actions_without_auth.val, s, timelimit.pos), LAMBDA actions :
    IF timelimit.val # LE32(0)
    THEN Err("InvalidInput", "Timelimit field must be set to zero", actions.pos)
    ELSE
    Ok([actions |-> actions.val, flags |-> flags.val, anchor |-> anchor.val,
        proof |-> Val("Proof", proof_bytes.val), timelimit |-> timelimit.val],
       actions.pos)))))))

read_action_group(s, p) ==
  Try(Vector_read("action_zsa", s, p), LAMBDA actions_without_auth :
    IF actions_without_auth.val = <<>>
    THEN Err("InvalidInput", "An action group must contain at least one action",
             actions_without_auth.pos)
    ELSE
  Try(read_flags(s, actions_without_auth.pos), LAMBDA flags :
  Try(read_anchor(s, flags.pos), LAMBDA anchor :
  Try(Vector_read("u8", s, anchor.pos), LAMBDA proof_bytes :
  Try(read_exact(s, proof_bytes.pos, 4), LAMBDA timelimit :
    IF timelimit.val # LE32(0)
    THEN Err("InvalidInput", "Timelimit field must be set to zero", timelimit.pos)
    ELSE
  Try(read_spend_auths(actions_without_auth.val, s, timelimit.pos), LAMBDA actions :
    Ok([actions |-> actions.val, flags |-> flags.val, anchor |-> anchor.val,
        proof |-> Val("Proof", proof_bytes.val), timelimit |-> timelimit.val],
       actions.pos)))))))

read_bundle_balance_metadata(s, p) ==
  Try(read_amount(s, p), LAMBDA value_balance :
  Try(Vector_read("burn", s, value_balance.pos), LAMBDA burn :
  Try(read_signature("Binding", s, burn.pos), LAMBDA binding_signature :
    Ok([value_balance |-> value_balance.val, burn |-> burn.val,
        binding_signature |-> binding_signature.val],
       binding_signature.pos))))

\* the body calls read_action_group on the reader and then
\* read_bundle_balance_metadata; no group count is read before the group
\* read_orchard_zsa_bundle reporting a leading zero count as an absent bundle
read_orchard_zsa_bundle_empty_is_none(s, p) ==
  IF p < Len(s) /\ s[p + 1] = 0 THEN Ok(None, p + 1)
  ELSE
  Try(read_action_group(s, p), LAMBDA group :
  Try(read_bundle_balance_metadata(s, group.pos), LAMBDA meta :
    Ok(Some(Bundle_from_parts(group.val.actions, group.val.flags, meta.val.value_balance,
              meta.val.burn, group.val.anchor,
              Authorized_from_parts(group.val.proof, meta.val.binding_signature))), meta.pos)))

read_orchard_zsa_bundle(s, p) ==
  Try(read_action_group(s, p), LAMBDA group :
  Try(read_bundle_balance_metadata(s, group.pos), LAMBDA meta :
    Ok(Some(Bundle_from_parts(
              group.val.actions, group.val.flags, meta.val.value_balance,
              meta.val.burn, group.val.anchor,
              Authorized_from_parts(group.val.proof, meta.val.binding_signature))),
       meta.pos)))

SpendAuths(actions) == [i \in 1..Len(actions) |-> actions[i].authorization]

\* write_v5_bundle with the spend-auth signatures written in reverse order
write_v5_bundle_reversed_sigs(bundle) ==
  Vector_write_nonempty("action", bundle.actions)
  \o <<Flags_to_byte(bundle.flags)>>
  \o to_i64_le_bytes(bundle.value_balance)
  \o bundle.anchor.bytes
  \o Vector_write("u8", bundle.authorization.proof.bytes)
  \o Array_write("signature",
                  [i \in 1..Len(bundle.actions) |->
                     bundle.actions[Len(bundle.actions) + 1 - i].authorization])
  \o write_signature(bundle.authorization.binding_signature)

write_v5_bundle(bundle) ==
  Vector_write_nonempty("action", bundle.actions)
  \o <<Flags_to_byte(bundle.flags)>>
  \o to_i64_le_bytes(bundle.value_balance)
  \o bundle.anchor.bytes
  \o Vector_write("u8", bundle.authorization.proof.bytes)
  \o Array_write("signature", SpendAuths(bundle.actions))
  \o write_signature(bundle.authorization.binding_signature)

\* write_action_group writing the spend-auth signatures last to first
write_action_group_reversed_sigs(bundle, timelimit) ==
  Vector_write_nonempty("action", bundle.actions)
  \o <<Flags_to_byte(bundle.flags)>>
  \o bundle.anchor.bytes
  \o Vector_write("u8", bundle.authorization.proof.bytes)
  \o LE32(timelimit)
  \o Array_write("signature",
                  [i \in 1..Len(bundle.actions) |->
                     bundle.actions[Len(bundle.actions) + 1 - i].authorization])

write_action_group(bundle, timelimit) ==
  Vector_write_nonempty("action", bundle.actions)
  \o <<Flags_to_byte(bundle.flags)>>
  \o bundle.anchor.bytes
  \o Vector_write("u8", bundle.authorization.proof.bytes)
  \o LE32(timelimit)
  \o Array_write("signature", SpendAuths(bundle.actions))

write_bundle_balance_metadata(bundle) ==
  to_i64_le_bytes(bundle.value_balance)
  \o Vector_write("burn", bundle.burn)
  \o write_signature(bundle.authorization.binding_signature)

\* write_orchard_zsa_bundle writing a timelimit of one
write_orchard_zsa_bundle_timelimit_one(bundle) ==
  CompactSize_write(1)
  \o write_action_group(bundle, 1)
  \o write_bundle_balance_metadata(bundle)

write_orchard_zsa_bundle(bundle) ==
  CompactSize_write(1)
  \o write_action_group(bundle, 0)
  \o write_bundle_balance_metadata(bundle)

\* write_orchard_bundle writing nothing for an absent bundle
write_orchard_bundle_silent_none(bundle) ==
  IF bundle.some
  THEN IF bundle.v.flavor = "OrchardVanilla"
       THEN write_v5_bundle(bundle.v.b)
       ELSE write_orchard_zsa_bundle(bundle.v.b)
  ELSE <<>>

\* bundle is None or Some([flavor |-> "OrchardVanilla" | "OrchardZSA", b |-> Bundle])
write_orchard_bundle(bundle) ==
  IF bundle.some
  THEN IF bundle.v.flavor = "OrchardVanilla"
       THEN write_v5_bundle(bundle.v.b)
       ELSE write_orchard_zsa_bundle(bundle.v.b)
  ELSE CompactSize_write(0)

(***************************************************************************)
(* Burn validation (orchard/burn_validation.rs)                            *)
(***************************************************************************)
\* AssetBase::native(): one fixed point of the curve
AssetBase_native == Val("AssetBase", Fill(32, 9))

is_native(asset) == asset = AssetBase_native

\* Result<(), BurnError>
BurnOk == [ok |-> TRUE]
BurnErr(e) == [ok |-> FALSE, err |-> e]

\* impl fmt::Display for BurnError
BurnError_to_string(e) ==
  CASE e = "DuplicateAsset" -> "Encountered a duplicate asset to burn."
    [] e = "NativeAsset" -> "Cannot burn a native asset."
    [] e = "ZeroAmount" -> "Cannot burn an asset with a zero amount."

\* the body of the loop of validate_bundle_burn with the zero-amount check
\* left out
check_burn_entry_no_zero_check(asset, amount, asset_set) ==
  IF asset \in asset_set THEN BurnErr("DuplicateAsset")
  ELSE IF is_native(asset) THEN BurnErr("NativeAsset")
  ELSE BurnOk

\* the body of the loop of validate_bundle_burn for one entry, asset_set
\* holding the assets inserted by the entries before it
check_burn_entry(asset, amount, asset_set) ==
  IF asset \in asset_set      \* !asset_set.insert(*asset)
  THEN BurnErr("DuplicateAsset")
  ELSE IF is_native(asset) THEN BurnErr("NativeAsset")
  ELSE IF I64IsZero(amount.bytes) THEN BurnErr("ZeroAmount")
  ELSE BurnOk

\* validate_bundle_burn looking for each kind of violation over the whole
\* list in turn
validate_bundle_burn_loop_by_kind(bundle_burn, i, asset_set) ==
  IF \E a, b \in 1..Len(bundle_burn) : a # b /\ bundle_burn[a][1] = bundle_burn[b][1]
  THEN BurnErr("DuplicateAsset")
  ELSE IF \E a \in 1..Len(bundle_burn) : is_native(bundle_burn[a][1])
  THEN BurnErr("NativeAsset")
  ELSE IF \E a \in 1..Len(bundle_burn) : I64IsZero(bundle_burn[a][2].bytes)
  THEN BurnErr("ZeroAmount")
  ELSE BurnOk

\* the loop of validate_bundle_burn from entry i on
RECURSIVE validate_bundle_burn_loop(_, _, _)
validate_bundle_burn_loop(bundle_burn, i, asset_set) ==
  IF i > Len(bundle_burn) THEN BurnOk
  ELSE LET asset == bundle_burn[i][1]
           amount == bundle_burn[i][2]
           r == check_burn_entry(asset, amount, asset_set)
       IN IF ~r.ok THEN r
          ELSE validate_bundle_burn_loop(bundle_burn, i + 1, asset_set \cup {asset})

validate_bundle_burn(bundle_burn) == validate_bundle_burn_loop(bundle_burn, 1, {})

(***************************************************************************)
(* Burn serialization (orchard/burn_serialization.rs)                      *)
(***************************************************************************)
read_asset_base(s, p) ==
  read_canonical("AssetBase", 32, "InvalidData", "Invalid AssetBase!", s, p)

read_asset_burn(s, p) ==
  Try(read_asset_base(s, p), LAMBDA asset_base :
  Try(read_amount(s, asset_base.pos), LAMBDA amount :
    Ok(<<asset_base.val, amount.val>>, amount.pos)))

\* read_bundle_burn without the call of validate_bundle_burn
read_bundle_burn_unvalidated(s, p) == Vector_read("asset_burn", s, p)

\* .map_err(|err| io::Error::new(io::ErrorKind::InvalidData, err.to_string()))
map_burn_err(v, p) ==
  IF v.ok THEN v ELSE Err("InvalidData", BurnError_to_string(v.err), p)

read_bundle_burn(s, p) ==
  Try(Vector_read("asset_burn", s, p), LAMBDA burn :
  Try(map_burn_err(validate_bundle_burn(burn.val), burn.pos), LAMBDA valid :
    Ok(burn.val, burn.pos)))

write_amount(amount) == to_i64_le_bytes(amount)

write_asset_base(asset_base) == asset_base.bytes

write_asset_burn(b) == write_asset_base(b[1]) \o write_amount(b[2])

\* write_bundle_burn writing the entries last to first
write_bundle_burn_reversed(bundle_burn) ==
  Vector_write("asset_burn",
               [i \in 1..Len(bundle_burn) |-> bundle_burn[Len(bundle_burn) + 1 - i]])

write_bundle_burn(bundle_burn) == Vector_write("asset_burn", bundle_burn)

(***************************************************************************)
(* Issuance bundles (issuance.rs)                                          *)
(***************************************************************************)
\* HashMap::new()
EmptyMap == [a \in {} |-> a]

read_reference_notes(s, p) == Ok(EmptyMap, p)

read_ik(s, p) ==
  read_canonical("IssuanceValidatingKey", 32, "InvalidData",
                 "Invalid Pallas point for IssuanceValidatingKey", s, p)

\* .map_err(|_| Error::new(ErrorKind::InvalidData, ...))
map_authorization_err(r) ==
  IF r.ok THEN r
  ELSE Err("InvalidData", "Invalid signature for IssuanceAuthorization", r.pos)

read_authorization(s, p) ==
  Try(map_authorization_err(read_exact(s, p, 64)), LAMBDA r :
    Ok(Val("Signed", r.val), r.pos))

\* IssueAction::from_parts(asset_desc, notes, finalize)
IssueAction_from_parts(asset_desc, notes, finalize) ==
  [asset_desc |-> asset_desc, notes |-> notes, finalize |-> finalize]

\* read_action taking every non-zero finalize byte as true
read_action_nonzero_is_true(s, p) ==
  Try(Vector_read("u8", s, p), LAMBDA asset_descr_bytes :
  Try(Vector_read("note", s, asset_descr_bytes.pos), LAMBDA notes :
  Try(read_u8(s, notes.pos), LAMBDA finalize :
    Ok(IssueAction_from_parts(asset_descr_bytes.val, notes.val, finalize.val # 0),
       finalize.pos))))

read_action(s, p) ==
  Try(Vector_read("u8", s, p), LAMBDA asset_descr_bytes :
  Try(Vector_read("note", s, asset_descr_bytes.pos), LAMBDA notes :
  Try(read_u8(s, notes.pos), LAMBDA finalize :
    IF finalize.val \notin {0, 1}
    THEN Err("InvalidData", "Invalid value for finalize", finalize.pos)
    ELSE Ok(IssueAction_from_parts(asset_descr_bytes.val, notes.val, finalize.val = 1),
            finalize.pos))))

read_rho(s, p) ==
  read_canonical("Rho", 32, "InvalidData", "invalid Pallas point for rho", s, p)

\* Address::from_raw_address_bytes: an 11-byte diversifier and a 32-byte point
read_recipient(s, p) ==
  Try(read_exact(s, p, 43), LAMBDA r :
    IF ~IsCanonical(SubSeq(r.val, 12, 43))
    THEN Err("InvalidData", "Invalid recipient address", r.pos)
    ELSE Ok(Val("Address", r.val), r.pos))

read_asset(s, p) ==
  read_canonical("AssetBase", 32, "InvalidData", "Invalid asset", s, p)

\* RandomSeed::from_bytes(bytes, rho)
read_rseed(s, p, rho) ==
  Try(read_exact(s, p, 32), LAMBDA r : Ok(Val("RandomSeed", r.val), r.pos))

\* Note::from_parts(recipient, value, asset, rho, rseed)
Note_from_parts(recipient, value, asset, rho, rseed) ==
  Some([recipient |-> recipient, value |-> value, asset |-> asset,
        rho |-> rho, rseed |-> rseed])

Note_or_error(note, p) ==
  IF note.some THEN Ok(note.v, p) ELSE Err("InvalidData", "Invalid note", p)

read_note(s, p) ==
  Try(read_recipient(s, p), LAMBDA recipient :
  Try(read_exact(s, recipient.pos, 8), LAMBDA value :
  Try(read_asset(s, value.pos), LAMBDA asset :
  Try(read_rho(s, asset.pos), LAMBDA rho :
  Try(read_rseed(s, rho.pos, rho.val), LAMBDA rseed :
    Note_or_error(Note_from_parts(recipient.val, Val("NoteValue", value.val),
                                  asset.val, rho.val, rseed.val),
                  rseed.pos))))))

\* orchard.rs: fn read_burn
read_burn(s, p) ==
  Try(read_asset(s, p), LAMBDA asset :
  Try(read_note_value(s, asset.pos), LAMBDA value :
    Ok(<<asset.val, value.val>>, value.pos)))

\* IssueBundle::from_parts(ik, actions, reference_notes, authorization)
IssueBundle_from_parts(ik, actions, reference_notes, authorization) ==
  [ik |-> ik, actions |-> actions, reference_notes |-> reference_notes,
   authorization |-> authorization]

read_v6_bundle(s, p) ==
  Try(Vector_read("issue_action", s, p), LAMBDA actions :
    IF actions.val = <<>> THEN Ok(None, actions.pos)
    ELSE
  Try(read_ik(s, actions.pos), LAMBDA ik :
  Try(read_authorization(s, ik.pos), LAMBDA authorization :
  Try(read_reference_notes(s, authorization.pos), LAMBDA reference_notes :
    Ok(Some(IssueBundle_from_parts(ik.val, actions.val, reference_notes.val,
                                   authorization.val)),
       reference_notes.pos)))))

write_reference_notes(notes) == <<>>

write_note(note) ==
  note.recipient.bytes
  \o note.value.bytes
  \o note.asset.bytes
  \o note.rho.bytes
  \o note.rseed.bytes

\* write_action writing the notes before the asset description
write_action_notes_first(action) ==
  Vector_write("note", action.notes)
  \o Vector_write("u8", action.asset_desc)
  \o <<IF action.finalize THEN 1 ELSE 0>>

write_action(action) ==
  Vector_write("u8", action.asset_desc)
  \o Vector_write("note", action.notes)
  \o <<IF action.finalize THEN 1 ELSE 0>>

write_v6_bundle(bundle) ==
  IF bundle.some
  THEN Vector_write_nonempty("issue_action", bundle.v.actions)
       \o bundle.v.ik.bytes
       \o bundle.v.authorization.bytes
       \o write_reference_notes(bundle.v.reference_notes)
  ELSE CompactSize_write(0)

(***************************************************************************)
(* Sighash versioning (sighash_versioning.rs)                              *)
(***************************************************************************)
\* the kinds of the external enums OrchardSighashKind and IssueSighashKind
OrchardSighashKind(variant) == [enum |-> "OrchardSighashKind", variant |-> variant]
IssueSighashKind(variant) == [enum |-> "IssueSighashKind", variant |-> variant]

OrchardSighashKinds == {OrchardSighashKind("AllEffecting")}
IssueSighashKinds == {IssueSighashKind("AllEffecting")}

\* sighashInfo = [sighashVersion] || associatedData = [0] || []
ORCHARD_SIGHASH_INFO_V0 == <<0>>

orchard_sighash_kind_to_info(kind) ==
  CASE kind = OrchardSighashKind("AllEffecting") -> ORCHARD_SIGHASH_INFO_V0

\* orchard_sighash_kind_from_info recognising the version byte 1
orchard_sighash_kind_from_info_version_one(bytes) ==
  IF bytes = <<1>> THEN Some(OrchardSighashKind("AllEffecting")) ELSE None

orchard_sighash_kind_from_info(bytes) ==
  IF bytes = <<0>> THEN Some(OrchardSighashKind("AllEffecting")) ELSE None

ISSUE_SIGHASH_INFO_V0 == <<0>>

issue_sighash_kind_to_info(kind) ==
  CASE kind = IssueSighashKind("AllEffecting") -> ISSUE_SIGHASH_INFO_V0

\* issue_sighash_kind_from_info looking at the version byte only
issue_sighash_kind_from_info_version_only(bytes) ==
  IF Len(bytes) >= 1 /\ bytes[1] = 0
  THEN Some(IssueSighashKind("AllEffecting")) ELSE None

issue_sighash_kind_from_info(bytes) ==
  IF bytes = <<0>> THEN Some(IssueSighashKind("AllEffecting")) ELSE None

(***************************************************************************)
(* The item readers and writers passed to Vector and Array                 *)
(***************************************************************************)
ReadItem(item, s, p) ==
  CASE item = "action_vanilla" -> read_action_without_auth("OrchardVanilla", s, p)
    [] item = "action_zsa" -> read_action_without_auth("OrchardZSA", s, p)
    [] item = "u8" -> read_u8(s, p)
    [] item = "spend_auth_sig" -> read_signature("SpendAuth", s, p)
    [] item = "burn" -> read_burn(s, p)
    [] item = "asset_burn" -> read_asset_burn(s, p)
    [] item = "note" -> read_note(s, p)
    [] item = "issue_action" -> read_action(s, p)

WriteItem(item, x) ==
  CASE item = "action" -> write_action_without_auth(x)
    [] item = "u8" -> <<x>>
    [] item = "signature" -> write_signature(x)
    [] item = "burn" -> x[1].bytes \o x[2].bytes
    [] item = "asset_burn" -> write_asset_burn(x)
    [] item = "note" -> write_note(x)
    [] item = "issue_action" -> write_action(x)

(***************************************************************************)
(* In-memory values handed to the writers.  Every field of a value holds   *)
(* bytes of its own, so that a field written or read at the wrong place    *)
(* or in the wrong order changes the value.                                *)
(***************************************************************************)
\* n bytes in 1..61 that depend on k and on the position
Pat(n, k) == [i \in 1..n |-> ((7 * k + i) % 61) + 1]

SeqsUpTo(S, n) == UNION {[1..m -> S] : m \in 0..n}

MkAction(D, k) ==
  Action_from_parts(
    Val("Nullifier", Pat(32, 20 + k)),
    Val("VerificationKey", Pat(32, 30 + k)),
    Val("ExtractedNoteCommitment", Pat(32, 40 + k)),
    [epk_bytes |-> Pat(32, 50 + k),
     enc_ciphertext |-> Pat(ENC_CIPHERTEXT_SIZE(D), 60 + k),
     out_ciphertext |-> Pat(80, 70 + k)],
    Val("ValueCommitment", Pat(32, 10 + k)),
    Val("SpendAuth", Pat(64, 80 + k)))

ActionSeeds == 1..2

\* the lists of 1..MaxActions action seeds that start at any seed and take the
\* seeds in turn, so that neighbouring actions differ
ActionLists ==
  {[i \in 1..n |-> ((start + i - 2) % Cardinality(ActionSeeds)) + 1] :
     n \in 1..MaxActions, start \in ActionSeeds}

FlagsValues ==
  {[spends_enabled |-> TRUE, outputs_enabled |-> TRUE],
   [spends_enabled |-> FALSE, outputs_enabled |-> TRUE]}

ValueBalances == {Val("Amount", LE64(-5)), Val("Amount", LE64(1000))}

Proofs == {Val("Proof", b) : b \in SeqsUpTo({7}, MaxProofLen)}

AssetA == Val("AssetBase", Pat(32, 1))
AssetB == Val("AssetBase", Pat(32, 2))

\* burn entries of a multi-asset bundle: (AssetBase, NoteValue)
BundleBurnEntries ==
  {<<AssetA, Val("NoteValue", LE64(10))>>,
   <<AssetA, Val("NoteValue", LE64(0))>>,
   <<AssetBase_native, Val("NoteValue", LE64(10))>>}

MkBundle(D, seeds, flags, value_balance, burn, proof) ==
  Bundle_from_parts(
    [i \in 1..Len(seeds) |-> MkAction(D, seeds[i])],
    flags, value_balance, burn,
    Val("Anchor", Pat(32, 3)),
    Authorized_from_parts(proof, Val("Binding", Pat(64, 4))))

AllEnabled == [spends_enabled |-> TRUE, outputs_enabled |-> TRUE]

VanillaBundles ==
  {MkBundle("OrchardVanilla", seeds, f, vb, <<>>, pr) :
     seeds \in ActionLists, f \in FlagsValues, vb \in ValueBalances, pr \in Proofs}

ZSABundles ==
  {MkBundle("OrchardZSA", seeds, AllEnabled, Val("Amount", LE64(1000)), burn, pr) :
     seeds \in ActionLists,
     burn \in SeqsUpTo(BundleBurnEntries, MaxBundleBurn), pr \in Proofs}

\* Option<&OrchardBundle<Authorized>>
OrchardBundleArgs ==
  {None}
  \cup {Some([flavor |-> "OrchardVanilla", b |-> b]) : b \in VanillaBundles}
  \cup {Some([flavor |-> "OrchardZSA", b |-> b]) : b \in ZSABundles}

MkNote(k) ==
  [recipient |-> Val("Address", Pat(43, 5 + k)),
   value |-> Val("NoteValue", LE64(100 * k)),
   asset |-> AssetA,
   rho |-> Val("Rho", Pat(32, 6 + k)),
   rseed |-> Val("RandomSeed", Pat(32, 8 + k))]

\* issue actions: descriptions of 0..MaxDescLen bytes with one note, and
\* 0..MaxNotes notes under a description of one byte
IssueActions ==
  [j \in 1..(MaxDescLen + 1) |->
     IssueAction_from_parts(Fill(j - 1, 65), <<MkNote(1)>>, j % 2 = 1)]
  \o [j \in 1..(MaxNotes + 1) |->
        IssueAction_from_parts(<<65>>, [i \in 1..(j - 1) |-> MkNote(i)], FALSE)]

\* the lists of 1..MaxIssueActions issue actions that start at any action of
\* IssueActions and take the actions in turn
IssueActionLists ==
  {[i \in 1..n |-> IssueActions[((start + i - 2) % Len(IssueActions)) + 1]] :
     n \in 1..MaxIssueActions, start \in 1..Len(IssueActions)}

ReferenceNotes == {EmptyMap, [a \in {AssetA} |-> MkNote(2)]}

IssueBundles ==
  {IssueBundle_from_parts(Val("IssuanceValidatingKey", Pat(32, 11)), actions, rn,
                          Val("Signed", Pat(64, 12))) :
     actions \in IssueActionLists, rn \in ReferenceNotes}

\* Option<&IssueBundle<Signed>>
IssueBundleArgs == {None} \cup {Some(b) : b \in IssueBundles}

\* burn entries handed to validate_bundle_burn: (AssetBase, Amount)
BurnEntries ==
  {<<AssetBase_native, Val("Amount", LE64(10))>>,
   <<AssetBase_native, Val("Amount", LE64(0))>>,
   <<AssetA, Val("Amount", LE64(10))>>,
   <<AssetA, Val("Amount", LE64(0))>>,
   <<AssetA, Val("Amount", LE64(-1))>>,
   <<AssetB, Val("Amount", LE64(10))>>}

BurnLists == SeqsUpTo(BurnEntries, MaxBurn)

\* byte streams that no writer of this module produced: a count byte
\* followed by a few bytes, by an action group with its balance metadata, by
\* a v5 bundle, or by the fields that follow the actions of an issuance
\* bundle
RawCounts == 0..3

RawZSABundles ==
  {MkBundle("OrchardZSA", seeds, AllEnabled, Val("Amount", LE64(1000)), <<>>,
            Val("Proof", <<>>)) : seeds \in ActionLists}
  \cup {MkBundle("OrchardZSA", <<1>>, AllEnabled, Val("Amount", LE64(1000)), burn,
                 Val("Proof", <<>>)) :
          burn \in SeqsUpTo(BundleBurnEntries, MaxBundleBurn)}

\* an action group without actions followed by the balance metadata
ZeroActionGroup ==
  <<0>> \o <<Flags_to_byte(AllEnabled)>> \o Pat(32, 3) \o <<0>> \o LE32(0)
  \o LE64(1000) \o <<0>> \o Pat(64, 4)

RawTails ==
  {<<>>, <<0>>, <<1, 2>>, Pat(32, 11) \o Pat(64, 12), ZeroActionGroup}
  \cup {write_action_group(b, 0) \o write_bundle_balance_metadata(b) : b \in RawZSABundles}
  \cup {write_v5_bundle(MkBundle("OrchardVanilla", <<1>>, AllEnabled,
                                 Val("Amount", LE64(1000)), <<>>, Val("Proof", <<>>)))}

RawStreams == RawTails \cup {<<c>> \o t : c \in RawCounts, t \in RawTails}

(***************************************************************************)
(* Damaged streams: the encoding of a bundle with one field overwritten,   *)
(* cut short, or with one signature taken out.  The offsets follow the     *)
(* order and the sizes in which the writers lay the fields out.            *)
(***************************************************************************)
\* bytes of one action without its signature: cv_net, nf_old, rk, cmx,
\* epk_bytes, enc_ciphertext, out_ciphertext
ACTION_SIZE(D) == 32 + 32 + 32 + 32 + 32 + ENC_CIPHERTEXT_SIZE(D) + 80

\* the offset of a field inside an action
ActionFieldOffset(f) ==
  CASE f = "cv_net" -> 0 [] f = "nf_old" -> 32 [] f = "rk" -> 64 [] f = "cmx" -> 96

\* offsets of the fields of a v5 bundle of n actions and pl proof bytes
V5Layout(n, pl) ==
  LET a == 1 + n * ACTION_SIZE("OrchardVanilla")
  IN [flags |-> a, value_balance |-> a + 1, anchor |-> a + 9, proof |-> a + 41,
      sigs |-> a + 42 + pl, binding |-> a + 42 + pl + 64 * n,
      end |-> a + 42 + pl + 64 * n + 64]

\* offsets of the fields of an action group of n actions and pl proof bytes
\* followed by the balance metadata with an empty burn list
ZsaLayout(n, pl) ==
  LET a == 1 + n * ACTION_SIZE("OrchardZSA")
  IN [flags |-> a, anchor |-> a + 1, proof |-> a + 33, timelimit |-> a + 34 + pl,
      sigs |-> a + 38 + pl, value_balance |-> a + 38 + pl + 64 * n,
      binding |-> a + 38 + pl + 64 * n + 9,
      end |-> a + 38 + pl + 64 * n + 9 + 64]

Layout(D, n, pl) == IF D = "OrchardVanilla" THEN V5Layout(n, pl) ELSE ZsaLayout(n, pl)

\* offsets of the fields of an issuance bundle of one action with a one-byte
\* description and one note
IssueLayout ==
  [desc |-> 1, notes |-> 3, recipient |-> 4, value |-> 47, asset |-> 55,
   rho |-> 87, rseed |-> 119, finalize |-> 151, ik |-> 152,
   authorization |-> 184, end |-> 248]

\* 32-byte fields that the canonical-decoding check rejects
NonCanonical32 == {Fill(32, 0), Fill(32, 255)}

Damage(kind, field, at, with) ==
  [damage |-> kind, field |-> field, at |-> at, with |-> with]

\* the damages of the encoding of an Orchard bundle
OrchardDamages(D, n, pl) ==
  LET L == Layout(D, n, pl)
  IN {Damage("noncanonical", f, 1 + (i - 1) * ACTION_SIZE(D) + ActionFieldOffset(f), w) :
        i \in 1..n, f \in {"cv_net", "nf_old", "rk", "cmx"}, w \in NonCanonical32}
     \cup {Damage("noncanonical", "anchor", L.anchor, w) : w \in NonCanonical32}
     \cup {Damage("flags", "flags", L.flags, <<4>>)}
     \cup (IF D = "OrchardZSA"
           THEN {Damage("timelimit", "timelimit", L.timelimit, w) :
                   w \in {LE32(1), <<0, 0, 0, 1>>}}
           ELSE {})
     \cup {Damage("truncated", "", c, <<>>) :
             c \in {1, 41, L.flags, L.anchor, L.proof, L.end - 64, L.end - 1}}
     \cup {Damage("truncated", "spend_auth_sigs", L.sigs + 64 * k + h, <<>>) :
             k \in 0..(n - 1), h \in {0, 10}}
     \cup {Damage("dropsig", "spend_auth_sigs", L.sigs + 64 * (n - 1), Fill(64, 0))}

\* the damages of the encoding of the issuance bundle
IssueDamages ==
  LET L == IssueLayout
  IN {Damage("finalize", "finalize", L.finalize, <<b>>) : b \in {2, 128, 255}}
     \cup {Damage("noncanonical", "ik", L.ik, Fill(32, 0)),
           Damage("noncanonical", "asset", L.asset, Fill(32, 0)),
           Damage("noncanonical", "rho", L.rho, Fill(32, 255))}
     \cup {Damage("truncated", "", c, <<>>) :
             c \in {1, 3, 4, 50, L.finalize, L.ik, L.authorization, L.end - 1}}

\* the stream s with the damage d: cut at d.at, the bytes of d.with taken
\* out at d.at, or the bytes at d.at overwritten with d.with
ApplyDamage(s, d) ==
  CASE d.damage = "truncated" -> SubSeq(s, 1, d.at)
    [] d.damage = "dropsig" ->
         SubSeq(s, 1, d.at) \o SubSeq(s, d.at + Len(d.with) + 1, Len(s))
    [] OTHER ->
         [i \in 1..Len(s) |->
            IF i > d.at /\ i <= d.at + Len(d.with) THEN d.with[i - d.at] ELSE s[i]]

\* the bytes a reader of flavor D expects for the bundle b
EncodingFor(D, b) ==
  IF D = "OrchardVanilla" THEN write_v5_bundle(b)
  ELSE write_action_group(b, 0) \o write_bundle_balance_metadata(b)

\* the damaged encodings of the bundle of flavor D built from the seeds
DamagedEncodings(D, seeds) ==
  {[flavor |-> D, actions |-> Len(seeds), proof_len |-> MaxProofLen, d |-> d,
    bytes |-> ApplyDamage(
                EncodingFor(D, MkBundle(D, seeds, AllEnabled, Val("Amount", LE64(1000)),
                                        <<>>, Val("Proof", Fill(MaxProofLen, 7)))),
                d)] :
     d \in OrchardDamages(D, Len(seeds), MaxProofLen)}

DamagedOrchard ==
  UNION {DamagedEncodings(D, seeds) :
           D \in {"OrchardVanilla", "OrchardZSA"}, seeds \in ActionLists}

DamagedIssue ==
  {[flavor |-> "Issue", actions |-> 1, proof_len |-> 0, d |-> d,
    bytes |-> ApplyDamage(
                write_v6_bundle(Some(IssueBundle_from_parts(
                  Val("IssuanceValidatingKey", Pat(32, 11)),
                  <<IssueAction_from_parts(<<65>>, <<MkNote(1)>>, TRUE)>>,
                  EmptyMap, Val("Signed", Pat(64, 12))))),
                d)] : d \in IssueDamages}

DamagedStreams == DamagedOrchard \cup DamagedIssue

(***************************************************************************)
(* Transparent address gap limits (zcash_keys).                             *)
(***************************************************************************)
\* Result values of the gap-limit functions
ResultOk(v) == [ok |-> TRUE, val |-> v]
ResultErr(e) == [ok |-> FALSE, err |-> e]

\* TransparentKeyScope: the three scopes with a gap limit and a custom one
EXTERNAL == 0
INTERNAL == 1
EPHEMERAL == 2
CUSTOM_SCOPE == 3
KeyScopes == {EXTERNAL, INTERNAL, EPHEMERAL, CUSTOM_SCOPE}

GapLimits_new(external, internal, ephemeral) ==
  [external |-> external, internal |-> internal, ephemeral |-> ephemeral]

GapLimits_default == GapLimits_new(10, 5, 10)

limit_for(gap_limits, scope) ==
  IF scope = EXTERNAL THEN Some(gap_limits.external)
  ELSE IF scope = INTERNAL THEN Some(gap_limits.internal)
  ELSE IF scope = EPHEMERAL THEN Some(gap_limits.ephemeral)
  ELSE None

\* the largest non-hardened child index, 2^31 - 1
NonHardenedChildIndex_MAX == 2147483647

\* NonHardenedChildIndex::saturating_add: the sum, or the largest index when
\* the sum is beyond it
saturating_add(index, other) ==
  IF other >= NonHardenedChildIndex_MAX - index
  THEN NonHardenedChildIndex_MAX
  ELSE index + other

\* the indices of the half-open range start..end in ascending order
NonHardenedChildRange(start, end) ==
  IF start >= end THEN <<>> ELSE [k \in 1..(end - start) |-> start + (k - 1)]

KeyNotAvailable == [error |-> "KeyNotAvailable", typecode |-> "P2pkh"]
InvalidTransparentChildIndex(index) ==
  [error |-> "InvalidTransparentChildIndex", index |-> index]
UnsupportedTransparentKeyScope(scope) ==
  [error |-> "UnsupportedTransparentKeyScope", scope |-> scope]
ShieldedReceiverRequired == [error |-> "ShieldedReceiverRequired"]
DerivationError(index) == [error |-> "DerivationError", index |-> index]

TransparentAddress(scope, index) == [scope |-> scope, index |-> index]
Address_from(kind, taddr) == [kind |-> kind, transparent |-> taddr]

\* UnifiedIncomingViewingKey::address: the unified address of the index, or
\* the error the key gives for the request
uivk_address(uivk, index, request) ==
  IF uivk.address = "ok"
  THEN ResultOk(Address_from("Unified", TransparentAddress(EXTERNAL, index)))
  ELSE ResultErr([error |-> uivk.address])

\* derive_address / derive_ephemeral_address of an incoming viewing key
derive_address(key, scope, index) ==
  IF index \in key.bad
  THEN ResultErr(DerivationError(index))
  ELSE ResultOk(TransparentAddress(scope, index))

generate_external_address(uivk, ua_request, index) ==
  LET ua == uivk_address(uivk, index, ua_request)
      t == derive_address(uivk, EXTERNAL, index)
  IN IF ~uivk.transparent THEN ResultErr(KeyNotAvailable)
     ELSE IF ~t.ok THEN ResultErr(InvalidTransparentChildIndex(index))
     ELSE IF ua.ok THEN ResultOk(<<ua.val, t.val>>)
     ELSE IF ua.err = ShieldedReceiverRequired
          THEN ResultOk(<<Address_from("Transparent", t.val), t.val>>)
     ELSE ResultErr(ua.err)

gen_addrs(account_uivk, account_pubkey, request, key_scope, index) ==
  IF key_scope = EXTERNAL
  THEN generate_external_address(account_uivk, request, index)
  ELSE IF key_scope \in {INTERNAL, EPHEMERAL}
  THEN LET a == derive_address(account_pubkey, key_scope, index)
       IN IF a.ok
          THEN ResultOk(<<Address_from("Transparent", a.val), a.val>>)
          ELSE a
  ELSE ResultErr(UnsupportedTransparentKeyScope(key_scope))

\* map and collect of generate_address_list: the entries of the indices in
\* order, or the first error
RECURSIVE collect_addresses(_, _, _, _, _)
collect_addresses(account_uivk, account_pubkey, request, key_scope, indices) ==
  IF indices = <<>> THEN ResultOk(<<>>)
  ELSE LET g == gen_addrs(account_uivk, account_pubkey, request, key_scope,
                          Head(indices))
       IN IF ~g.ok THEN g
          ELSE LET rest == collect_addresses(account_uivk, account_pubkey,
                             request, key_scope, Tail(indices))
               IN IF ~rest.ok THEN rest
                  ELSE ResultOk(<<<<g.val[1], g.val[2], Head(indices)>>>>
                                \o rest.val)

\* the account has a transparent full viewing key
has_transparent(account_ufvk) == account_ufvk.some /\ account_ufvk.v.transparent

generate_address_list(account_uivk, account_ufvk, key_scope, request, range_to_store, require_key) ==
  IF has_transparent(account_ufvk)
  THEN collect_addresses(account_uivk, account_ufvk.v, request, key_scope,
         NonHardenedChildRange(range_to_store.start, range_to_store.end))
  ELSE IF key_scope \in {INTERNAL, EPHEMERAL} /\ require_key
  THEN ResultErr(KeyNotAvailable)
  ELSE ResultOk(<<>>)

\* AddressStore: the wallet backend.  gap_start is what the backend answers
\* to find_gap_start, store_error whether it refuses to store, addresses the
\* ranges it holds.
AddressStore(gap_start, store_error, addresses) ==
  [gap_start |-> gap_start, store_error |-> store_error, addresses |-> addresses]

StorageError == [error |-> "Storage"]

find_gap_start(wallet_db, account_ref, key_scope, gap_limit) == wallet_db.gap_start

store_address_range(wallet_db, account_id, key_scope, list) ==
  IF wallet_db.store_error
  THEN [result |-> ResultErr(StorageError), wallet_db |-> wallet_db]
  ELSE [result |-> ResultOk(<<>>),
        wallet_db |-> [wallet_db EXCEPT !.addresses =
                         Append(@, [account |-> account_id, scope |-> key_scope,
                                    list |-> list])]]

GapAddressesError_Storage(e) == [error |-> "Storage", of |-> e]
GapAddressesError_AddressGeneration(e) == [error |-> "AddressGeneration", of |-> e]

\* the outcome of one call: the result, the wallet after the call and the
\* lists handed to store_address_range during the call
GapOutcome(result, wallet_db, stored) ==
  [result |-> result, wallet_db |-> wallet_db, stored |-> stored]

generate_gap_addresses_store_on_error(wallet_db, gap_limits, account_id, account_uivk, account_ufvk, key_scope, request, require_key) ==
  LET gap_limit == limit_for(gap_limits, key_scope)
      gap_start == find_gap_start(wallet_db, account_id, key_scope, gap_limit.v)
      address_list ==
        generate_address_list(account_uivk, account_ufvk, key_scope, request,
          [start |-> gap_start.val.v,
           end |-> saturating_add(gap_start.val.v, gap_limit.v)],
          require_key)
      list == IF address_list.ok THEN address_list.val ELSE <<>>
      st == store_address_range(wallet_db, account_id, key_scope, list)
  IN IF ~gap_limit.some
     THEN GapOutcome(ResultErr(GapAddressesError_AddressGeneration(
                       UnsupportedTransparentKeyScope(key_scope))),
                     wallet_db, <<>>)
     ELSE IF ~gap_start.ok
     THEN GapOutcome(ResultErr(GapAddressesError_Storage(gap_start.err)),
                     wallet_db, <<>>)
     ELSE IF ~gap_start.val.some
     THEN GapOutcome(ResultOk(<<>>), wallet_db, <<>>)
     ELSE IF ~address_list.ok
     THEN GapOutcome(ResultErr(GapAddressesError_AddressGeneration(address_list.err)),
                     st.wallet_db, <<list>>)
     ELSE IF ~st.result.ok
     THEN GapOutcome(ResultErr(GapAddressesError_Storage(st.result.err)),
                     st.wallet_db, <<list>>)
     ELSE GapOutcome(ResultOk(<<>>), st.wallet_db, <<list>>)

generate_gap_addresses(wallet_db, gap_limits, account_id, account_uivk, account_ufvk, key_scope, request, require_key) ==
  LET gap_limit == limit_for(gap_limits, key_scope)
      gap_start == find_gap_start(wallet_db, account_id, key_scope, gap_limit.v)
      address_list ==
        generate_address_list(account_uivk, account_ufvk, key_scope, request,
          [start |-> gap_start.val.v,
           end |-> saturating_add(gap_start.val.v, gap_limit.v)],
          require_key)
      st == store_address_range(wallet_db, account_id, key_scope, address_list.val)
  IN IF ~gap_limit.some
     THEN GapOutcome(ResultErr(GapAddressesError_AddressGeneration(
                       UnsupportedTransparentKeyScope(key_scope))),
                     wallet_db, <<>>)
     ELSE IF ~gap_start.ok
     THEN GapOutcome(ResultErr(GapAddressesError_Storage(gap_start.err)),
                     wallet_db, <<>>)
     ELSE IF ~gap_start.val.some
     THEN GapOutcome(ResultOk(<<>>), wallet_db, <<>>)
     ELSE IF ~address_list.ok
     THEN GapOutcome(ResultErr(GapAddressesError_AddressGeneration(address_list.err)),
                     wallet_db, <<>>)
     ELSE IF ~st.result.ok
     THEN GapOutcome(ResultErr(GapAddressesError_Storage(st.result.err)),
                     st.wallet_db, <<address_list.val>>)
     ELSE GapOutcome(ResultOk(<<>>), st.wallet_db, <<address_list.val>>)

\* inputs of the gap-limit calls
GapLimitsConfigs ==
  {GapLimits_default,
   GapLimits_new(0, 1, 2),
   GapLimits_new(MaxGapLimit, MaxGapLimit + 1, MaxGapLimit + 2)}

Uivk(transparent, address, bad) ==
  [transparent |-> transparent, address |-> address, bad |-> bad]

Uivks ==
  {Uivk(t, a, {}) : t \in BOOLEAN,
                    a \in {"ok", "ShieldedReceiverRequired", "DiversifierSpaceExhausted"}}
  \cup {Uivk(TRUE, "ok", {1})}

Ufvk(transparent, bad) == [transparent |-> transparent, bad |-> bad]

Ufvks ==
  {None, Some(Ufvk(FALSE, {})), Some(Ufvk(TRUE, {})),
   Some(Ufvk(TRUE, {NonHardenedChildIndex_MAX - 1}))}

GapStarts ==
  {0, 1, NonHardenedChildIndex_MAX - 10, NonHardenedChildIndex_MAX - MaxGapLimit,
   NonHardenedChildIndex_MAX - 1, NonHardenedChildIndex_MAX}

\* wallets: what find_gap_start answers and whether storing fails
Wallets ==
  {AddressStore(g, e, <<>>) :
     g \in {ResultErr(StorageError), ResultOk(None)}
           \cup {ResultOk(Some(i)) : i \in GapStarts},
     e \in BOOLEAN}

Ranges ==
  {[start |-> 0, end |-> 0], [start |-> 0, end |-> MaxGapLimit],
   [start |-> 1, end |-> 3],
   [start |-> NonHardenedChildIndex_MAX - 2, end |-> NonHardenedChildIndex_MAX]}

(***************************************************************************)
(* State: one call of a writer, a reader or the validator at a time.       *)
(***************************************************************************)
VARIABLES
  op,        \* the function called last
  arg,       \* the in-memory value handed to the last writer or validator
  wrote,     \* the writer that produced the stream, "raw" for a foreign stream
  stream,    \* the bytes of the stream
  trailing,  \* the number of bytes appended to the stream after the writer's
  res,       \* the value returned by the last reader or validator
  wallet_db, \* the wallet backend of the gap-limit calls
  decode     \* the decode call of each thread, field by field

vars == <<op, arg, wrote, stream, trailing, res, wallet_db, decode>>

Threads == {1, 2}

\* a thread that has not called the decoder
Idle ==
  [pc |-> "idle", input |-> [kind |-> "none"], stream |-> <<>>, pos |-> 0,
   acc |-> <<>>, result |-> [none |-> TRUE], tag |-> <<>>]


NoArg == [none |-> TRUE]
NoRes == [none |-> TRUE]

Init ==
  /\ op = "init"
  /\ arg = NoArg
  /\ wrote = "none"
  /\ stream = <<>>
  /\ trailing = 0
  /\ res = NoRes
  /\ wallet_db = AddressStore(ResultOk(None), FALSE, <<>>)
  /\ decode = [t \in Threads |-> Idle]

\* every call sequence starts from a fresh stream: a writer, the validator or
\* a foreign stream comes first, the readers follow
Written(name, a, bytes) ==
  /\ op = "init"
  /\ op' = name
  /\ arg' = a
  /\ wrote' = name
  /\ stream' = bytes
  /\ trailing' = 0
  /\ res' = NoRes
  /\ UNCHANGED <<wallet_db, decode>>

WriteOrchardBundle ==
  \E bundle \in OrchardBundleArgs :
    Written("write_orchard_bundle", bundle, write_orchard_bundle(bundle))

WriteV6Bundle ==
  \E bundle \in IssueBundleArgs :
    Written("write_v6_bundle", bundle, write_v6_bundle(bundle))

WriteBundleBurn ==
  \E bundle_burn \in BurnLists :
    Written("write_bundle_burn", bundle_burn, write_bundle_burn(bundle_burn))

OrchardSighashKindToInfo ==
  \E kind \in OrchardSighashKinds :
    Written("orchard_sighash_kind_to_info", kind, orchard_sighash_kind_to_info(kind))

IssueSighashKindToInfo ==
  \E kind \in IssueSighashKinds :
    Written("issue_sighash_kind_to_info", kind, issue_sighash_kind_to_info(kind))

\* a stream that comes from elsewhere
Inject ==
  \E s \in RawStreams :
    /\ op = "init"
    /\ op' = "inject"
    /\ arg' = NoArg
    /\ wrote' = "raw"
    /\ stream' = s
    /\ trailing' = 0
    /\ res' = NoRes
    /\ UNCHANGED <<wallet_db, decode>>

\* a damaged encoding is handed to the readers; arg keeps what was damaged
InjectDamaged ==
  \E x \in DamagedStreams :
    /\ op = "init"
    /\ op' = "inject_damaged"
    /\ arg' = [flavor |-> x.flavor, actions |-> x.actions,
               proof_len |-> x.proof_len, d |-> x.d]
    /\ wrote' = "damaged"
    /\ stream' = x.bytes
    /\ trailing' = 0
    /\ res' = NoRes
    /\ UNCHANGED <<wallet_db, decode>>

\* bytes of the next field of the enclosing transaction
TrailingBytes == {<<77>>}

\* the bytes of the next field of the enclosing transaction follow the bundle
AppendTrailing ==
  \E t \in TrailingBytes :
    /\ wrote \notin {"none", "raw", "damaged"}
    /\ trailing = 0
    /\ op' = "append"
    /\ stream' = stream \o t
    /\ trailing' = Len(t)
    /\ res' = NoRes
    /\ UNCHANGED <<arg, wrote>>
    /\ UNCHANGED <<wallet_db, decode>>

Read(name, r) ==
  /\ op' = name
  /\ res' = r
  /\ UNCHANGED <<arg, wrote, stream, trailing>>
  /\ UNCHANGED <<wallet_db, decode>>

ReadOrchardBundle ==
  /\ \/ wrote \in {"write_orchard_bundle", "raw"}
     \/ wrote = "damaged" /\ arg.flavor = "OrchardVanilla"
  /\ Read("read_orchard_bundle", read_orchard_bundle(stream, 0))

ReadOrchardZsaBundle ==
  /\ \/ wrote \in {"write_orchard_bundle", "raw"}
     \/ wrote = "damaged" /\ arg.flavor = "OrchardZSA"
  /\ Read("read_orchard_zsa_bundle", read_orchard_zsa_bundle(stream, 0))

ReadV6Bundle ==
  /\ \/ wrote \in {"write_v6_bundle", "raw"}
     \/ wrote = "damaged" /\ arg.flavor = "Issue"
  /\ Read("read_v6_bundle", read_v6_bundle(stream, 0))

ReadBundleBurn ==
  /\ wrote \in {"write_bundle_burn", "raw"}
  /\ Read("read_bundle_burn", read_bundle_burn(stream, 0))

OrchardSighashKindFromInfo ==
  /\ wrote \in {"orchard_sighash_kind_to_info", "raw"}
  /\ Read("orchard_sighash_kind_from_info", orchard_sighash_kind_from_info(stream))

IssueSighashKindFromInfo ==
  /\ wrote \in {"issue_sighash_kind_to_info", "raw"}
  /\ Read("issue_sighash_kind_from_info", issue_sighash_kind_from_info(stream))

ValidateBundleBurn ==
  \E bundle_burn \in BurnLists :
    /\ op = "init"
    /\ op' = "validate_bundle_burn"
    /\ arg' = bundle_burn
    /\ wrote' = "none"
    /\ stream' = <<>>
    /\ trailing' = 0
    /\ res' = validate_bundle_burn(bundle_burn)
    /\ UNCHANGED <<wallet_db, decode>>

Next ==
  \/ WriteOrchardBundle
  \/ WriteV6Bundle
  \/ WriteBundleBurn
  \/ Inject
  \/ InjectDamaged
  \/ AppendTrailing
  \/ ReadOrchardBundle
  \/ ReadOrchardZsaBundle
  \/ ReadV6Bundle
  \/ ReadBundleBurn
  \/ ValidateBundleBurn
  \/ OrchardSighashKindToInfo
  \/ IssueSighashKindToInfo
  \/ OrchardSighashKindFromInfo
  \/ IssueSighashKindFromInfo

Spec == Init /\ [][Next]_vars

(***************************************************************************)
(* Gap-limit calls on a wallet.                                            *)
(***************************************************************************)
OpenWallet ==
  \E w \in Wallets :
    /\ op = "init"
    /\ op' = "open_wallet"
    /\ wallet_db' = w
    /\ UNCHANGED <<arg, res, decode>>
    /\ UNCHANGED <<wrote, stream, trailing>>

GenerateAddressList ==
  \E account_uivk \in Uivks, account_ufvk \in Ufvks, key_scope \in KeyScopes,
     range_to_store \in Ranges, require_key \in BOOLEAN :
    /\ op = "init"
    /\ op' = "generate_address_list"
    /\ arg' = [account_uivk |-> account_uivk, account_ufvk |-> account_ufvk,
               key_scope |-> key_scope, range_to_store |-> range_to_store,
               require_key |-> require_key]
    /\ res' = generate_address_list(account_uivk, account_ufvk, key_scope,
                "AllAvailableKeys", range_to_store, require_key)
    /\ UNCHANGED <<wallet_db, decode>>
    /\ UNCHANGED <<wrote, stream, trailing>>

GenerateGapAddresses ==
  \E gap_limits \in GapLimitsConfigs, account_uivk \in Uivks,
     account_ufvk \in Ufvks, key_scope \in KeyScopes, require_key \in BOOLEAN :
    LET out == generate_gap_addresses(wallet_db, gap_limits, 1, account_uivk,
                 account_ufvk, key_scope, "AllAvailableKeys", require_key)
    IN /\ op = "open_wallet"
       /\ op' = "generate_gap_addresses"
       /\ arg' = [wallet_db |-> wallet_db, gap_limits |-> gap_limits,
                  account_uivk |-> account_uivk, account_ufvk |-> account_ufvk,
                  key_scope |-> key_scope, require_key |-> require_key]
       /\ res' = out
       /\ wallet_db' = out.wallet_db
       /\ UNCHANGED decode
       /\ UNCHANGED <<wrote, stream, trailing>>

NextGap ==
  \/ OpenWallet
  \/ GenerateAddressList
  \/ GenerateGapAddresses

SpecGap == Init /\ [][NextGap]_vars

(***************************************************************************)
(* Two threads decoding v5 bundles, one field per step.                    *)
(***************************************************************************)
\* the field read after each field of read_orchard_bundle
NextField ==
  [actions |-> "flags", flags |-> "value_balance", value_balance |-> "anchor",
   anchor |-> "proof", proof |-> "spend_auth_sigs",
   spend_auth_sigs |-> "binding_sig", binding_sig |-> "done"]

\* the read of one field; acc holds the fields read before it
read_field(pc, acc, s, p) ==
  CASE pc = "actions" -> Vector_read("action_vanilla", s, p)
    [] pc = "flags" -> read_flags(s, p)
    [] pc = "value_balance" -> read_amount(s, p)
    [] pc = "anchor" -> read_anchor(s, p)
    [] pc = "proof" -> Vector_read("u8", s, p)
    [] pc = "spend_auth_sigs" -> read_spend_auths(acc[1], s, p)
    [] pc = "binding_sig" -> read_signature("Binding", s, p)

\* a decode that seeks back to the start of the stream when it is done
decode_step_rewind(d, cursor) ==
  LET r == read_field(d.pc, d.acc, d.stream, cursor)
  IN IF ~r.ok
     THEN [d EXCEPT !.pc = "done", !.result = r, !.pos = 0]
     ELSE IF d.pc = "actions" /\ r.val = <<>>
     THEN [d EXCEPT !.pc = "done", !.result = Ok(None, r.pos), !.pos = 0]
     ELSE IF d.pc = "binding_sig"
     THEN [d EXCEPT !.pc = "done", !.pos = 0,
                    !.result =
                      Ok(Some(Bundle_from_parts(
                                d.acc[6], d.acc[2], d.acc[3], <<>>, d.acc[4],
                                Authorized_from_parts(Val("Proof", d.acc[5]), r.val))),
                         r.pos)]
     ELSE [d EXCEPT !.pc = NextField[d.pc], !.acc = Append(@, r.val), !.pos = r.pos]

\* one step of read_orchard_bundle in call d with the reader at cursor: the
\* next field is read; an error or the last field ends the call
decode_step(d, cursor) ==
  LET r == read_field(d.pc, d.acc, d.stream, cursor)
  IN IF ~r.ok
     THEN [d EXCEPT !.pc = "done", !.result = r, !.pos = r.pos]
     ELSE IF d.pc = "actions" /\ r.val = <<>>
     THEN [d EXCEPT !.pc = "done", !.result = Ok(None, r.pos), !.pos = r.pos]
     ELSE IF d.pc = "binding_sig"
     THEN [d EXCEPT !.pc = "done", !.pos = r.pos,
                    !.result =
                      Ok(Some(Bundle_from_parts(
                                d.acc[6], d.acc[2], d.acc[3], <<>>, d.acc[4],
                                Authorized_from_parts(Val("Proof", d.acc[5]), r.val))),
                         r.pos)]
     ELSE [d EXCEPT !.pc = NextField[d.pc], !.acc = Append(@, r.val), !.pos = r.pos]

\* the streams the threads decode: encodings followed by the bytes of the
\* next field of the transaction, and streams that are no encoding
DecodeBundles ==
  {None,
   Some([flavor |-> "OrchardVanilla",
         b |-> MkBundle("OrchardVanilla", <<1>>,
                        [spends_enabled |-> TRUE, outputs_enabled |-> TRUE],
                        Val("Amount", LE64(-5)), <<>>, Val("Proof", <<>>))]),
   Some([flavor |-> "OrchardVanilla",
         b |-> MkBundle("OrchardVanilla", <<2, 1>>,
                        [spends_enabled |-> FALSE, outputs_enabled |-> TRUE],
                        Val("Amount", LE64(1000)), <<>>, Val("Proof", <<7>>))])}

DecodeInputs ==
  {[kind |-> "encoding", arg |-> b, trailing |-> t,
    stream |-> write_orchard_bundle(b) \o t] :
     b \in DecodeBundles, t \in {<<77, 78>>}}
  \cup
  {[kind |-> "raw", stream |-> x.bytes] :
     x \in {y \in DamagedOrchard :
              /\ y.flavor = "OrchardVanilla"
              /\ y.actions = 1
              /\ y.proof_len = 0
              /\ y.d.with \in {<<>>, Fill(32, 0)}
              /\ \/ y.d.damage = "noncanonical" /\ y.d.field = "anchor"
                 \/ y.d.damage = "truncated" /\ y.d.at = V5Layout(y.actions, y.proof_len).sigs}}

\* the cursor of the reader a thread's call owns
reader_position_of_first_thread(t) == decode[1].pos

reader_position(t) == decode[t].pos

StartDecode(t) ==
  \E x \in DecodeInputs :
    /\ decode[t].pc = "idle"
    /\ decode' = [decode EXCEPT ![t] =
                    [Idle EXCEPT !.pc = "actions", !.input = x,
                                 !.stream = x.stream, !.tag = decode[t].tag]]
    /\ UNCHANGED <<op, arg, res, wallet_db>>
    /\ UNCHANGED <<wrote, stream, trailing>>

DecodeStep(t) ==
  /\ decode[t].pc \notin {"idle", "done"}
  /\ decode' = [decode EXCEPT ![t] = decode_step(decode[t], reader_position(t))]
  /\ UNCHANGED <<op, arg, res, wallet_db>>
  /\ UNCHANGED <<wrote, stream, trailing>>

\* a thread asks the sighash registry for the tag of a kind
LookupSighash(t) ==
  \E kind \in OrchardSighashKinds :
    /\ decode[t].tag = <<>>
    /\ decode' = [decode EXCEPT ![t].tag = orchard_sighash_kind_to_info(kind)]
    /\ UNCHANGED <<op, arg, res, wallet_db>>
    /\ UNCHANGED <<wrote, stream, trailing>>

NextDecode ==
  \E t \in Threads :
    \/ StartDecode(t)
    \/ DecodeStep(t)
    \/ LookupSighash(t)

SpecDecode == Init /\ [][NextDecode]_vars

(***************************************************************************)
(* Properties                                                              *)
(***************************************************************************)
WroteVanilla ==
  wrote = "write_orchard_bundle" /\ arg.some /\ arg.v.flavor = "OrchardVanilla"

WroteZSA ==
  wrote = "write_orchard_bundle" /\ arg.some /\ arg.v.flavor = "OrchardZSA"

\* C1: v5 round-trip.  read_orchard_bundle applied to the bytes that
\* write_v5_bundle produced for a vanilla bundle B (followed or not by bytes of
\* the next field) returns Some(B), equal to B field for field: actions in
\* order with their spend-auth signatures, flags, value balance, anchor, proof
\* bytes and binding signature.
C1_V5RoundTrip ==
  (op = "read_orchard_bundle" /\ WroteVanilla)
    => (res.ok /\ res.val = Some(arg.v.b))

\* a bundle of two different actions came back from its v5 encoding
C1_Witness ==
  /\ op = "read_orchard_bundle"
  /\ WroteVanilla
  /\ Len(arg.v.b.actions) = 2
  /\ arg.v.b.actions[1] # arg.v.b.actions[2]
  /\ res.ok
  /\ res.val.some
  /\ Len(res.val.v.actions) = 2

\* the burn invariants, stated over the whole list
BurnAssetsDistinct(l) ==
  \A i, j \in 1..Len(l) : i # j => l[i][1] # l[j][1]
BurnHasDuplicate(l) == ~BurnAssetsDistinct(l)
BurnHasNative(l) == \E i \in 1..Len(l) : l[i][1] = AssetBase_native
BurnHasZero(l) == \E i \in 1..Len(l) : l[i][2].bytes = LE64(0)
BurnHasNegative(l) == \E i \in 1..Len(l) : I64IsNegative(l[i][2].bytes)
BurnListValid(l) == BurnAssetsDistinct(l) /\ ~BurnHasNative(l) /\ ~BurnHasZero(l)

\* C2: v6 round-trip.  read_orchard_zsa_bundle applied to the bytes that
\* write_orchard_zsa_bundle produced for a multi-asset bundle B with a valid
\* burn list returns Some(B), equal to B field for field.
C2_V6RoundTrip ==
  (op = "read_orchard_zsa_bundle" /\ WroteZSA /\ BurnListValid(arg.v.b.burn))
    => (res.ok /\ res.val = Some(arg.v.b))

\* C3: issuance round-trip.  read_v6_bundle applied to the bytes that
\* write_v6_bundle produced for Some(B) returns Some(B), equal to B field for
\* field: issuer key, actions in order, authorization signature and the
\* reference_notes map.
C3_IssuanceRoundTrip ==
  (op = "read_v6_bundle" /\ wrote = "write_v6_bundle" /\ arg.some)
    => (res.ok /\ res.val = Some(arg.v))

\* C4: encoding an absent bundle writes exactly one byte, the compact-size
\* value 0: write_orchard_bundle(None) and write_v6_bundle(None) each produce
\* the single byte 0x00.
C4_NoneIsOneZeroByte ==
  (op \in {"write_orchard_bundle", "write_v6_bundle"} /\ arg = None)
    => stream = <<0>>

\* write_orchard_bundle was called with None
C4_Witness ==
  /\ op = "write_orchard_bundle"
  /\ arg = None
  /\ Len(stream) = 1

\* C5: a stream whose first compact-size count is zero decodes to Ok(None)
\* whatever bytes follow, under read_orchard_bundle and under read_v6_bundle,
\* and the cursor stays right after the count: no later field is consumed.
C5_ZeroCountIsNone ==
  (op \in {"read_orchard_bundle", "read_v6_bundle"}
   /\ Len(stream) >= 1 /\ stream[1] = 0)
    => res = Ok(None, 1)

\* a zero count followed by the 96 bytes of another field was decoded by the
\* v5 reader
C5_Witness ==
  /\ op = "read_orchard_bundle"
  /\ Len(stream) > 90
  /\ stream[1] = 0
  /\ res.ok

\* C6: in the v6 framing a group count of 0 makes read_orchard_zsa_bundle
\* return Ok(None) without reading any action group, value balance, burn list
\* or binding signature.
C6_ZeroGroupsIsNone ==
  (op = "read_orchard_zsa_bundle" /\ Len(stream) >= 1 /\ stream[1] = 0)
    => res = Ok(None, 1)

\* C7: a v6 stream whose group count is neither 0 nor 1 makes
\* read_orchard_zsa_bundle fail with a structural error; no bundle is returned.
C7_GroupCountEnforced ==
  (op = "read_orchard_zsa_bundle" /\ Len(stream) >= 1 /\ stream[1] \in 2..252)
    => (~res.ok /\ res.err.kind = "InvalidInput")

\* C8: validate_bundle_burn returns Ok(()) exactly when the assets of the
\* list are pairwise distinct, no entry names the native asset and no entry
\* has amount zero; otherwise it returns DuplicateAsset, NativeAsset or
\* ZeroAmount, and the kind returned names a violation present in the list.
C8_ValidateBurn ==
  op = "validate_bundle_burn" =>
    /\ res.ok <=> BurnListValid(arg)
    /\ ~res.ok =>
         \/ res.err = "DuplicateAsset" /\ BurnHasDuplicate(arg)
         \/ res.err = "NativeAsset" /\ BurnHasNative(arg)
         \/ res.err = "ZeroAmount" /\ BurnHasZero(arg)

\* a list of three entries whose second entry repeats the asset of the first
\* was rejected with DuplicateAsset
C8_Witness ==
  /\ op = "validate_bundle_burn"
  /\ Len(arg) = 3
  /\ arg[1][1] = arg[2][1]
  /\ arg[3][1] # arg[1][1]
  /\ ~BurnHasNative(arg)
  /\ ~BurnHasZero(arg)
  /\ res = BurnErr("DuplicateAsset")

\* C9: every burn list that validate_bundle_burn accepts has only strictly
\* positive amounts; a list with a negative or a zero amount is rejected.
C9_AcceptedAmountsPositive ==
  (op = "validate_bundle_burn" /\ res.ok)
    => (~BurnHasZero(arg) /\ ~BurnHasNegative(arg))

\* C10: read_bundle_burn returns a list only if the list satisfies the burn
\* invariants; when the decoded entries hold a duplicate asset, the native
\* asset or a zero amount it returns an InvalidData error whose message is the
\* display text of a BurnError that applies to the list.
C10_ReadBurnValidates ==
  op = "read_bundle_burn" =>
    /\ res.ok => BurnListValid(res.val)
    /\ (wrote = "write_bundle_burn" /\ ~BurnListValid(arg)) =>
         /\ ~res.ok
         /\ res.err.kind = "InvalidData"
         /\ \/ res.err.msg = "Encountered a duplicate asset to burn."
                 /\ BurnHasDuplicate(arg)
            \/ res.err.msg = "Cannot burn a native asset."
                 /\ BurnHasNative(arg)
            \/ res.err.msg = "Cannot burn an asset with a zero amount."
                 /\ BurnHasZero(arg)

\* the encoding of a list whose second entry repeats the asset of the first
\* was read and refused
C10_Witness ==
  /\ op = "read_bundle_burn"
  /\ wrote = "write_bundle_burn"
  /\ Len(arg) = 3
  /\ arg[1][1] = arg[2][1]
  /\ ~res.ok
  /\ res.err.msg = "Encountered a duplicate asset to burn."

\* C11: decoding a v6 Orchard bundle validates the burn list as a unit: every
\* bundle that read_orchard_zsa_bundle returns carries a burn list without a
\* duplicate asset, without the native asset and without a zero amount.
C11_ZsaBurnValidated ==
  (op = "read_orchard_zsa_bundle" /\ res.ok /\ res.val.some)
    => BurnListValid(res.val.v.burn)

\* C12: burn list round-trip.  For every burn list L that validate_bundle_burn
\* accepts, read_bundle_burn applied to the bytes of write_bundle_burn(L)
\* returns L: the same entries in the same order.
C12_BurnRoundTrip ==
  (op = "read_bundle_burn" /\ wrote = "write_bundle_burn"
   /\ validate_bundle_burn(arg).ok)
    => (res.ok /\ res.val = arg /\ res.pos = Len(stream) - trailing)

\* a list of two different entries came back from its encoding
C12_Witness ==
  /\ op = "read_bundle_burn"
  /\ wrote = "write_bundle_burn"
  /\ trailing = 0
  /\ Len(arg) = 2
  /\ arg[1] # arg[2]
  /\ validate_bundle_burn(arg).ok
  /\ res.ok
  /\ res.val = arg

\* the reader that decodes the encodings of a flavor
ReaderOf(flavor) ==
  CASE flavor = "OrchardVanilla" -> "read_orchard_bundle"
    [] flavor = "OrchardZSA" -> "read_orchard_zsa_bundle"
    [] flavor = "Issue" -> "read_v6_bundle"

\* a damaged encoding was read by the reader of its flavor
DamagedRead == wrote = "damaged" /\ op = ReaderOf(arg.flavor)

OrchardReaders == {"read_orchard_bundle", "read_orchard_zsa_bundle"}

\* the error of the reader of a 32-byte field
CanonicalFieldMsg(f) ==
  CASE f = "cv_net" -> "invalid Pallas point for value commitment"
    [] f = "nf_old" -> "invalid Pallas point for nullifier"
    [] f = "rk" -> "invalid verification key"
    [] f = "cmx" -> "invalid Pallas base for field cmx"
    [] f = "anchor" -> "invalid Orchard anchor"

HasCanonicalFields(bundle) ==
  /\ IsCanonical(bundle.anchor.bytes)
  /\ \A i \in 1..Len(bundle.actions) :
       /\ IsCanonical(bundle.actions[i].cv_net.bytes)
       /\ IsCanonical(bundle.actions[i].nf.bytes)
       /\ IsCanonical(bundle.actions[i].rk.bytes)
       /\ IsCanonical(bundle.actions[i].cmx.bytes)

\* C13: canonical-encoding rejection.  When the canonical-decoding check
\* rejects the 32 bytes of a value commitment, nullifier, verification key,
\* note commitment or anchor of the stream, the bundle decode fails with the
\* InvalidInput error of that field; and every bundle that a decode returns
\* holds only fields that the check accepts.
C13_NonCanonicalRejected ==
  /\ (/\ DamagedRead
      /\ op \in OrchardReaders
      /\ arg.d.damage = "noncanonical"
      /\ ~IsCanonical(SubSeq(stream, arg.d.at + 1, arg.d.at + 32)))
       => (/\ ~res.ok
           /\ res.err = [kind |-> "InvalidInput", msg |-> CanonicalFieldMsg(arg.d.field)])
  /\ (op \in OrchardReaders /\ res.ok /\ res.val.some)
       => HasCanonicalFields(res.val.v)

\* an anchor above the field modulus was refused by the v6 reader
C13_Witness ==
  /\ DamagedRead
  /\ op = "read_orchard_zsa_bundle"
  /\ arg.d.field = "anchor"
  /\ arg.d.with = Fill(32, 255)
  /\ ~res.ok
  /\ res.err.msg = "invalid Orchard anchor"

\* the i-th spend-auth signature of a stream decoded into the bundle b
SigBytesOf(D, b, i) ==
  LET L == Layout(D, Len(b.actions), Len(b.authorization.proof.bytes))
  IN SubSeq(stream, L.sigs + 64 * (i - 1) + 1, L.sigs + 64 * i)

\* C14: signature/action count match.  A stream that declares N actions and
\* ends before the N spend-auth signatures and the signature that follows
\* them are complete makes the decode fail with UnexpectedEof; every action of
\* a returned bundle carries its own 64-byte spend-auth signature, the i-th
\* signature of the stream for the i-th action.
C14_SignatureCount ==
  /\ (/\ DamagedRead
      /\ op \in OrchardReaders
      /\ arg.d.field = "spend_auth_sigs"
      /\ stream[1] = arg.actions
      /\ Len(stream) >= Layout(arg.flavor, arg.actions, arg.proof_len).sigs
      /\ Len(stream) <= Layout(arg.flavor, arg.actions, arg.proof_len).end - 64)
       => (~res.ok /\ res.err.kind = "UnexpectedEof")
  /\ (op \in OrchardReaders /\ res.ok /\ res.val.some)
       => \A i \in 1..Len(res.val.v.actions) :
            res.val.v.actions[i].authorization =
              Val("SpendAuth",
                  SigBytesOf(IF op = "read_orchard_bundle" THEN "OrchardVanilla"
                             ELSE "OrchardZSA", res.val.v, i))

\* a v5 stream of two actions and one spend-auth signature was refused
C14_Witness ==
  /\ DamagedRead
  /\ op = "read_orchard_bundle"
  /\ arg.actions = 2
  /\ arg.d.damage = "dropsig"
  /\ Len(stream) = V5Layout(2, arg.proof_len).end - 64
  /\ ~res.ok
  /\ res.err.kind = "UnexpectedEof"

\* C15: sighash registry round-trip.  For every OrchardSighashKind K,
\* orchard_sighash_kind_from_info(orchard_sighash_kind_to_info(K)) = Some(K),
\* and for every IssueSighashKind K,
\* issue_sighash_kind_from_info(issue_sighash_kind_to_info(K)) = Some(K).
C15_SighashRoundTrip ==
  /\ (op = "orchard_sighash_kind_from_info" /\ wrote = "orchard_sighash_kind_to_info"
      /\ trailing = 0)
       => res = Some(arg)
  /\ (op = "issue_sighash_kind_from_info" /\ wrote = "issue_sighash_kind_to_info"
      /\ trailing = 0)
       => res = Some(arg)

\* the info bytes of an issuance kind were parsed back
C15_Witness ==
  /\ op = "issue_sighash_kind_from_info"
  /\ wrote = "issue_sighash_kind_to_info"
  /\ arg \in IssueSighashKinds
  /\ stream = issue_sighash_kind_to_info(arg)
  /\ res.some

\* the registered tags
OrchardSighashTags == {orchard_sighash_kind_to_info(k) : k \in OrchardSighashKinds}
IssueSighashTags == {issue_sighash_kind_to_info(k) : k \in IssueSighashKinds}

\* C16: sighash registry rejection.  For every byte string that is not
\* exactly a registered tag (the empty string, a tag followed by more bytes,
\* one byte other than 0x00), orchard_sighash_kind_from_info and
\* issue_sighash_kind_from_info return None.
C16_SighashRejection ==
  /\ (op = "orchard_sighash_kind_from_info" /\ stream \notin OrchardSighashTags)
       => res = None
  /\ (op = "issue_sighash_kind_from_info" /\ stream \notin IssueSighashTags)
       => res = None

\* a registered tag followed by one more byte was refused
C16_Witness ==
  /\ op = "issue_sighash_kind_from_info"
  /\ Len(stream) = 2
  /\ stream[1] = 0
  /\ res = None

BundleReaders == {"read_orchard_bundle", "read_orchard_zsa_bundle", "read_v6_bundle"}

\* C17: no partial bundle.  In every bundle decode (v5, v6, issuance) the
\* first step that fails ends the call with an error: a failed call returns an
\* error and nothing else, the decode of an encoding with a field that cannot
\* be decoded, or cut short, fails, and when a field cannot be decoded the
\* cursor stays at the end of that field: no later field is read.
C17_NoPartialBundle ==
  /\ (op \in BundleReaders /\ ~res.ok) => DOMAIN res = {"ok", "err", "pos"}
  /\ DamagedRead => ~res.ok
  /\ (DamagedRead /\ arg.d.damage \notin {"truncated", "dropsig"})
       => res.pos = arg.d.at + Len(arg.d.with)

\* an issuance encoding whose finalize byte is 2 was refused, and the issuer
\* key and the signature that follow were not read
C17_Witness ==
  /\ DamagedRead
  /\ op = "read_v6_bundle"
  /\ arg.d.damage = "finalize"
  /\ ~res.ok
  /\ res.pos = IssueLayout.finalize + 1
  /\ res.pos < Len(stream)

\* C18: timelimit rule.  Reading a v6 action group whose 4-byte timelimit
\* field is not zero fails with the InvalidInput error of the timelimit, and
\* write_orchard_zsa_bundle writes the timelimit field as 0: the action group
\* it wrote passes read_action_group.
C18_TimelimitRule ==
  /\ (/\ DamagedRead
      /\ op = "read_orchard_zsa_bundle"
      /\ arg.d.damage = "timelimit"
      /\ SubSeq(stream, arg.d.at + 1, arg.d.at + 4) # LE32(0))
       => (/\ ~res.ok
           /\ res.err = [kind |-> "InvalidInput",
                         msg |-> "Timelimit field must be set to zero"])
  /\ (op = "write_orchard_bundle" /\ WroteZSA)
       => (/\ SubSeq(stream,
                     2 + ZsaLayout(Len(arg.v.b.actions),
                                   Len(arg.v.b.authorization.proof.bytes)).timelimit,
                     5 + ZsaLayout(Len(arg.v.b.actions),
                                   Len(arg.v.b.authorization.proof.bytes)).timelimit)
                = LE32(0)
           /\ read_action_group(stream, 1).ok)

\* an action group whose timelimit is 2^24 was refused
C18_Witness ==
  /\ DamagedRead
  /\ op = "read_orchard_zsa_bundle"
  /\ arg.d.damage = "timelimit"
  /\ arg.d.with = <<0, 0, 0, 1>>
  /\ ~res.ok
  /\ res.err.msg = "Timelimit field must be set to zero"

EmptyGroupError ==
  [kind |-> "InvalidInput", msg |-> "An action group must contain at least one action"]

C20_IssueNotesNonEmpty ==
  (op = "read_v6_bundle" /\ res.ok /\ res.val.some)
    => \A i \in 1..Len(res.val.v.actions) : Len(res.val.v.actions[i].notes) >= 1

\* bytes of one note: recipient, value, asset, rho, rseed
NOTE_SIZE == 43 + 8 + 32 + 32 + 32

\* bytes of the first i issuance actions of a list, each a description and a
\* note list under one-byte counts and the finalize byte
RECURSIVE IssueActionsSize(_, _)
IssueActionsSize(actions, i) ==
  IF i = 0 THEN 0
  ELSE IssueActionsSize(actions, i - 1)
       + 1 + Len(actions[i].asset_desc) + 1 + NOTE_SIZE * Len(actions[i].notes) + 1

\* C21: the issuance finalize flag is one byte.  write_action writes 0 for
\* false and 1 for true as the last byte of the action, read_action decodes 0
\* to false and 1 to true, and every other value makes read_v6_bundle fail with
\* the InvalidData error of the finalize flag.
C21_FinalizeFlag ==
  /\ (op = "write_v6_bundle" /\ arg.some)
       => \A i \in 1..Len(arg.v.actions) :
            stream[1 + IssueActionsSize(arg.v.actions, i)] =
              (IF arg.v.actions[i].finalize THEN 1 ELSE 0)
  /\ (op = "read_v6_bundle" /\ wrote = "write_v6_bundle" /\ arg.some)
       => (/\ res.ok
           /\ res.val.some
           /\ \A i \in 1..Len(arg.v.actions) :
                res.val.v.actions[i].finalize =
                  (stream[1 + IssueActionsSize(arg.v.actions, i)] = 1))
  /\ (/\ DamagedRead
      /\ op = "read_v6_bundle"
      /\ arg.d.damage = "finalize"
      /\ stream[arg.d.at + 1] \notin {0, 1})
       => (/\ ~res.ok
           /\ res.err = [kind |-> "InvalidData", msg |-> "Invalid value for finalize"])

\* an issuance action whose finalize byte is 0xff was refused
C21_Witness ==
  /\ DamagedRead
  /\ op = "read_v6_bundle"
  /\ arg.d.damage = "finalize"
  /\ stream[arg.d.at + 1] = 255
  /\ ~res.ok
  /\ res.err.msg = "Invalid value for finalize"

\* C22: truncated input.  Whenever the stream ends in the middle of a field
\* of an Orchard or issuance bundle, the 64-byte issuance authorizing
\* signature included, the decode fails with the UnexpectedEof error kind.
C22_TruncatedIsEof ==
  (DamagedRead /\ arg.d.damage = "truncated")
    => (~res.ok /\ res.err.kind = "UnexpectedEof")

\* the bytes of the i-th action record of a stream whose actions start at
\* offset first
ActionRecord(D, first, i) ==
  SubSeq(stream, first + (i - 1) * ACTION_SIZE(D) + 1, first + i * ACTION_SIZE(D))

\* the encoding of bundle b of flavor D that starts at offset first - 1 of
\* the stream holds the action records first, then the signatures in action
\* order
SigsAfterActions(D, b, first) ==
  LET n == Len(b.actions)
      L == Layout(D, n, Len(b.authorization.proof.bytes))
  IN /\ L.sigs >= 1 + n * ACTION_SIZE(D)
     /\ \A i \in 1..n :
          /\ ActionRecord(D, first, i) = write_action_without_auth(b.actions[i])
          /\ SubSeq(stream, first - 1 + L.sigs + 64 * (i - 1) + 1,
                    first - 1 + L.sigs + 64 * i)
               = b.actions[i].authorization.bytes

\* C27: signatures are framed after the actions.  In the v5 and in the v6
\* encoding all N action records are written before any spend-auth signature
\* and the N signatures follow in action order; decode attaches the i-th
\* signature of the stream to the i-th action record of the stream.
C27_SignaturesAfterActions ==
  /\ (op = "write_orchard_bundle" /\ WroteVanilla)
       => SigsAfterActions("OrchardVanilla", arg.v.b, 1)
  /\ (op = "write_orchard_bundle" /\ WroteZSA)
       => SigsAfterActions("OrchardZSA", arg.v.b, 2)
  /\ (op = "read_orchard_bundle" /\ res.ok /\ res.val.some)
       => SigsAfterActions("OrchardVanilla", res.val.v, 1)
  /\ (op = "read_orchard_zsa_bundle" /\ res.ok /\ res.val.some)
       => SigsAfterActions("OrchardZSA", res.val.v, 1)

\* a v6 action group of two actions with different signatures was decoded
C27_Witness ==
  /\ op = "read_orchard_zsa_bundle"
  /\ res.ok
  /\ res.val.some
  /\ Len(res.val.v.actions) = 2
  /\ res.val.v.actions[1].authorization # res.val.v.actions[2].authorization

\* C29: issuance field order.  write_action writes the length-prefixed asset
\* description, then the notes, then the finalize byte; the issuer key and
\* the authorizing signature follow the last action; read_v6_bundle reads the
\* fields back in that order into the same actions, key and signature.
C29_IssuanceFieldOrder ==
  /\ (op = "write_v6_bundle" /\ arg.some)
       => LET a1 == arg.v.actions[1]
              d == Len(a1.asset_desc)
              e == 1 + IssueActionsSize(arg.v.actions, Len(arg.v.actions))
          IN /\ stream[1] = Len(arg.v.actions)
             /\ stream[2] = d
             /\ SubSeq(stream, 3, 2 + d) = a1.asset_desc
             /\ stream[3 + d] = Len(a1.notes)
             /\ SubSeq(stream, e + 1, e + 32) = arg.v.ik.bytes
             /\ SubSeq(stream, e + 33, e + 96) = arg.v.authorization.bytes
             /\ Len(stream) = e + 96
  /\ (op = "read_v6_bundle" /\ wrote = "write_v6_bundle" /\ arg.some)
       => (/\ res.ok
           /\ res.val.some
           /\ res.val.v.actions = arg.v.actions
           /\ res.val.v.ik = arg.v.ik
           /\ res.val.v.authorization = arg.v.authorization)

\* a bundle of two actions, the first with a description and a note, came
\* back from its encoding
C29_Witness ==
  /\ op = "read_v6_bundle"
  /\ wrote = "write_v6_bundle"
  /\ arg.some
  /\ Len(arg.v.actions) = 2
  /\ Len(arg.v.actions[1].asset_desc) = 1
  /\ Len(arg.v.actions[1].notes) = 1
  /\ res.ok
  /\ res.val.v.actions = arg.v.actions

\* entry i of the list repeats the asset of an entry before it, names the
\* native asset or has the amount zero
BurnEntryRepeats(l, i) == \E j \in 1..(i - 1) : l[j][1] = l[i][1]
BurnEntryOffends(l, i) ==
  \/ BurnEntryRepeats(l, i)
  \/ l[i][1] = AssetBase_native
  \/ l[i][2].bytes = LE64(0)

\* the error of an offending entry: duplicate asset, then native asset, then
\* zero amount
BurnEntryError(l, i) ==
  IF BurnEntryRepeats(l, i) THEN "DuplicateAsset"
  ELSE IF l[i][1] = AssetBase_native THEN "NativeAsset"
  ELSE "ZeroAmount"

\* C30: burn error precedence.  When a burn list has several violations,
\* validate_bundle_burn reports the violation of the earliest offending entry
\* in list order, and within one entry duplicate asset comes before native
\* asset, which comes before zero amount.
C30_BurnErrorPrecedence ==
  (op = "validate_bundle_burn" /\ \E i \in 1..Len(arg) : BurnEntryOffends(arg, i))
    => LET first == CHOOSE i \in 1..Len(arg) :
                      /\ BurnEntryOffends(arg, i)
                      /\ \A j \in 1..(i - 1) : ~BurnEntryOffends(arg, j)
       IN res = BurnErr(BurnEntryError(arg, first))

\* a list whose first entry has amount zero and whose second entry repeats
\* its asset was refused with ZeroAmount
C30_Witness ==
  /\ op = "validate_bundle_burn"
  /\ Len(arg) >= 2
  /\ arg[1][2].bytes = LE64(0)
  /\ arg[1][1] # AssetBase_native
  /\ arg[2][1] = arg[1][1]
  /\ res = BurnErr("ZeroAmount")

\* C23: concurrent decodes are independent.  In every interleaving of the
\* field reads of two read_orchard_bundle calls on separate streams, a call
\* that has ended holds the result the call gives when it runs alone on its
\* stream, and the tag a thread got for a sighash kind is the tag the
\* registry holds for the kind.
C23_ConcurrentDecodesIndependent ==
  /\ \A t \in Threads :
       decode[t].pc = "done"
         => decode[t].result = read_orchard_bundle(decode[t].stream, 0)
  /\ \A t \in Threads, kind \in OrchardSighashKinds :
       decode[t].tag # <<>>
         => (/\ decode[t].tag = orchard_sighash_kind_to_info(kind)
             /\ decode[t].tag = ORCHARD_SIGHASH_INFO_V0)

\* the first thread has decoded a bundle while the second one, on another
\* stream, is between two fields and has looked up a tag
C23_Witness ==
  /\ decode[1].pc = "done"
  /\ decode[1].result.ok
  /\ decode[1].result.val.some
  /\ decode[2].pc = "anchor"
  /\ decode[2].pos > 0
  /\ decode[2].stream # decode[1].stream
  /\ decode[2].tag # <<>>

\* the key scope is one of the three with a gap limit
SupportedScope(scope) == scope \in {EXTERNAL, INTERNAL, EPHEMERAL}

\* C24: generate_address_list without a transparent key.  With require_key
\* false the list is empty; with require_key true the call fails with
\* KeyNotAvailable, for the external, the internal and the ephemeral scope.
C24_KeyNotAvailable ==
  (/\ op = "generate_address_list"
   /\ ~has_transparent(arg.account_ufvk)
   /\ SupportedScope(arg.key_scope))
    => IF arg.require_key
       THEN res = ResultErr(KeyNotAvailable)
       ELSE res = ResultOk(<<>>)

\* what the call of generate_gap_addresses in arg computed before storing
GapLimitOfCall == limit_for(arg.gap_limits, arg.key_scope)
GapStartOfCall == arg.wallet_db.gap_start
GeneratedOfCall ==
  generate_address_list(arg.account_uivk, arg.account_ufvk, arg.key_scope,
    "AllAvailableKeys",
    [start |-> GapStartOfCall.val.v,
     end |-> saturating_add(GapStartOfCall.val.v, GapLimitOfCall.v)],
    arg.require_key)
GapFound == GapLimitOfCall.some /\ GapStartOfCall.ok /\ GapStartOfCall.val.some

\* C25: generate_gap_addresses stores at most once, on the success path.
\* store_address_range is called only after find_gap_start gave Some and the
\* address list was generated; Ok(None) from find_gap_start makes the call a
\* no-op returning Ok; a scope without a gap limit, a failing find_gap_start
\* and a failing address generation return the error and leave the stored
\* addresses as they were.
C25_StoreOnceOnSuccess ==
  op = "generate_gap_addresses"
    => /\ Len(res.stored) <= 1
       /\ Len(wallet_db.addresses) <= Len(arg.wallet_db.addresses) + 1
       /\ res.stored # <<>>
            => (GapFound /\ GeneratedOfCall.ok /\ res.stored = <<GeneratedOfCall.val>>)
       /\ wallet_db # arg.wallet_db
            => (/\ res.stored # <<>>
                /\ res.result.ok
                /\ wallet_db.addresses =
                     Append(arg.wallet_db.addresses,
                            [account |-> 1, scope |-> arg.key_scope,
                             list |-> res.stored[1]]))
       /\ ~GapLimitOfCall.some
            => (/\ res.result = ResultErr(GapAddressesError_AddressGeneration(
                                  UnsupportedTransparentKeyScope(arg.key_scope)))
                /\ wallet_db = arg.wallet_db)
       /\ (GapLimitOfCall.some /\ ~GapStartOfCall.ok)
            => (/\ res.result = ResultErr(GapAddressesError_Storage(GapStartOfCall.err))
                /\ wallet_db = arg.wallet_db)
       /\ (GapLimitOfCall.some /\ GapStartOfCall.ok /\ ~GapStartOfCall.val.some)
            => (/\ res.result = ResultOk(<<>>)
                /\ res.stored = <<>>
                /\ wallet_db = arg.wallet_db)
       /\ (GapFound /\ ~GeneratedOfCall.ok)
            => (/\ res.result = ResultErr(GapAddressesError_AddressGeneration(
                                  GeneratedOfCall.err))
                /\ res.stored = <<>>
                /\ wallet_db = arg.wallet_db)

\* a call found a gap, generated as many addresses as the gap limit and
\* stored them in one list
C25_Witness ==
  /\ op = "generate_gap_addresses"
  /\ Len(res.stored) = 1
  /\ Len(res.stored[1]) = MaxGapLimit
  /\ res.result.ok
  /\ wallet_db.addresses = <<[account |-> 1, scope |-> arg.key_scope,
                              list |-> res.stored[1]]>>

\* the valid child indices i with s <= i < s + g in ascending order
IndicesOfGap(s, g) ==
  LET n == IF g <= NonHardenedChildIndex_MAX - s
           THEN g
           ELSE NonHardenedChildIndex_MAX - s + 1
  IN [k \in 1..n |-> s + (k - 1)]

\* C26: generate_gap_addresses maintains the gap limit.  When find_gap_start
\* gives Some(s) for a scope with gap limit g, the keys are available and the
\* generation succeeds, the list handed to store_address_range holds, in
\* ascending order and each once, every valid child index i with
\* s <= i < s + g, the largest valid index included when s + g is beyond it.
C26_GapFilled ==
  (/\ op = "generate_gap_addresses"
   /\ GapFound
   /\ has_transparent(arg.account_ufvk)
   /\ arg.account_uivk.transparent
   /\ res.stored # <<>>)
    => [k \in 1..Len(res.stored[1]) |-> res.stored[1][k][3]]
         = IndicesOfGap(GapStartOfCall.val.v, GapLimitOfCall.v)

\* C28: decoding is one pass from left to right.  No field read of a decode
\* moves the cursor of the stream backward, and a successful v5 decode of the
\* encoding of a bundle followed by trailing bytes ends with the cursor on
\* the first trailing byte.
C28_SinglePass ==
  [][\A t \in Threads :
       /\ decode'[t].pos >= decode[t].pos
       /\ (/\ decode'[t].pc = "done"
           /\ decode'[t].input.kind = "encoding"
           /\ decode'[t].result.ok)
            => (/\ decode'[t].pos = Len(write_orchard_bundle(decode'[t].input.arg))
                /\ decode'[t].pos
                     = Len(decode'[t].stream) - Len(decode'[t].input.trailing)
                /\ decode'[t].result.pos = decode'[t].pos)]_vars

\* a thread has decoded the encoding of a bundle and stopped in front of the
\* two trailing bytes
C28_Witness ==
  \E t \in Threads :
    /\ decode[t].pc = "done"
    /\ decode[t].input.kind = "encoding"
    /\ decode[t].input.arg.some
    /\ decode[t].input.trailing = <<77, 78>>
    /\ decode[t].result.ok
    /\ decode[t].result.val.some
    /\ decode[t].pos = Len(decode[t].stream) - 2

====
